---- MODULE Spec2Model ----
(***************************************************************************)
(* Model of the multi-tenant Jira MCP worker: the inbound fetch handler    *)
(* (src/index.ts), credential parsing and validation (src/types/env.ts),   *)
(* the HTTP client's request helper and list operations (src/client.ts)    *)
(* and the tool handlers that wrap them (src/tools/*.ts).                  *)
(*                                                                         *)
(* Strings that the code inspects character by character (header values,   *)
(* credentials) are sequences of one-character strings; messages that the  *)
(* code only concatenates are TLA+ strings.                                *)
(***************************************************************************)
EXTENDS Integers, Sequences, FiniteSets, TLC

\* ------------------------------------------------------------------------
\* Bounds of the explored inputs
\* ------------------------------------------------------------------------
MaxStartAt == 1
MaxItems == 2
MaxTotal == 3
MaxRequests == 2
MaxIssueTypes == 2
MaxStatuses == 2

\* ------------------------------------------------------------------------
\* Optional values: null / undefined versus a present value
\* ------------------------------------------------------------------------
None == [present |-> FALSE, v |-> <<>>]
Some(s) == [present |-> TRUE, v |-> s]

\* JavaScript truthiness of an optional string: present and non-empty
Truthy(o) == o.present /\ o.v # <<>>

\* JavaScript numbers that may be NaN
Num(n) == [nan |-> FALSE, n |-> n]
NaN == [nan |-> TRUE, n |-> 0]

\* ------------------------------------------------------------------------
\* btoa: base64 of a Latin-1 string
\* ------------------------------------------------------------------------
B64Alphabet ==
  << "A","B","C","D","E","F","G","H","I","J","K","L","M","N","O","P",
     "Q","R","S","T","U","V","W","X","Y","Z","a","b","c","d","e","f",
     "g","h","i","j","k","l","m","n","o","p","q","r","s","t","u","v",
     "w","x","y","z","0","1","2","3","4","5","6","7","8","9","+","/" >>

\* Code unit of the characters the explored credentials are made of
CharCode(c) ==
  CASE c = ":" -> 58
    [] c = "@" -> 64
    [] c = "a" -> 97
    [] c = "b" -> 98
    [] c = "k" -> 107
    [] c = "x" -> 120
    [] c = "y" -> 121
    [] c = "z" -> 122

RECURSIVE btoa(_)
btoa(s) ==
  IF Len(s) = 0 THEN <<>>
  ELSE IF Len(s) = 1 THEN
    LET b0 == CharCode(s[1]) IN
      << B64Alphabet[(b0 \div 4) + 1],
         B64Alphabet[((b0 % 4) * 16) + 1], "=", "=" >>
  ELSE IF Len(s) = 2 THEN
    LET b0 == CharCode(s[1])
        b1 == CharCode(s[2]) IN
      << B64Alphabet[(b0 \div 4) + 1],
         B64Alphabet[((b0 % 4) * 16 + (b1 \div 16)) + 1],
         B64Alphabet[((b1 % 16) * 4) + 1], "=" >>
  ELSE
    LET b0 == CharCode(s[1])
        b1 == CharCode(s[2])
        b2 == CharCode(s[3]) IN
      << B64Alphabet[(b0 \div 4) + 1],
         B64Alphabet[((b0 % 4) * 16 + (b1 \div 16)) + 1],
         B64Alphabet[((b1 % 16) * 4 + (b2 \div 64)) + 1],
         B64Alphabet[(b2 % 64) + 1] >> \o btoa(SubSeq(s, 4, Len(s)))

\* ------------------------------------------------------------------------
\* Number.parseInt(s, 10)
\* ------------------------------------------------------------------------
IsDigit(c) == c \in {"0","1","2","3","4","5","6","7","8","9"}

DigitValue(c) ==
  CASE c = "0" -> 0 [] c = "1" -> 1 [] c = "2" -> 2 [] c = "3" -> 3
    [] c = "4" -> 4 [] c = "5" -> 5 [] c = "6" -> 6 [] c = "7" -> 7
    [] c = "8" -> 8 [] c = "9" -> 9

RECURSIVE SkipSpace(_)
SkipSpace(s) ==
  IF Len(s) > 0 /\ s[1] = " " THEN SkipSpace(Tail(s)) ELSE s

\* value of the longest digit prefix of s, continuing from acc
RECURSIVE DigitPrefix(_, _)
DigitPrefix(s, acc) ==
  IF Len(s) > 0 /\ IsDigit(s[1])
    THEN DigitPrefix(Tail(s), acc * 10 + DigitValue(s[1]))
    ELSE acc

parseInt(str) ==
  LET t == SkipSpace(str)
      neg == Len(t) > 0 /\ t[1] = "-"
      u == IF Len(t) > 0 /\ t[1] \in {"-", "+"} THEN Tail(t) ELSE t
  IN IF Len(u) > 0 /\ IsDigit(u[1])
       THEN Num(IF neg THEN 0 - DigitPrefix(u, 0) ELSE DigitPrefix(u, 0))
       ELSE NaN

\* ------------------------------------------------------------------------
\* Tenant credentials (src/types/env.ts)
\* ------------------------------------------------------------------------
\* headers.get(name) || undefined
OrUndefined(h) == IF Truthy(h) THEN h ELSE None

\* h: the four tenant headers of the inbound request, each None or Some(string)
parseTenantCredentials(h) ==
  [ domain |-> IF Truthy(h.domain) THEN h.domain.v ELSE <<>>,
    email |-> OrUndefined(h.email),
    apiToken |-> OrUndefined(h.apiToken),
    accessToken |-> OrUndefined(h.accessToken) ]

\* variant of validateCredentials that accepts an email without an API token
validateCredentials_EitherOfBasic(c) ==
  IF c.domain = <<>>
    THEN [ok |-> FALSE,
          message |-> "Missing X-Jira-Domain header. Provide your Jira Cloud domain."]
  ELSE IF ~(Truthy(c.email) \/ Truthy(c.apiToken)) /\ ~Truthy(c.accessToken)
    THEN [ok |-> FALSE,
          message |-> "Missing credentials. Provide either X-Jira-Email + X-Jira-API-Token headers, or X-Jira-Access-Token header."]
  ELSE [ok |-> TRUE, message |-> ""]

\* variant of validateCredentials that tests for defined rather than non-empty values
validateCredentials_DefinedOnly(c) ==
  IF c.domain = <<>>
    THEN [ok |-> FALSE,
          message |-> "Missing X-Jira-Domain header. Provide your Jira Cloud domain."]
  ELSE IF ~(c.email.present /\ c.apiToken.present) /\ ~c.accessToken.present
    THEN [ok |-> FALSE,
          message |-> "Missing credentials. Provide either X-Jira-Email + X-Jira-API-Token headers, or X-Jira-Access-Token header."]
  ELSE [ok |-> TRUE, message |-> ""]

\* The thrown Error's message, or ok
validateCredentials(c) ==
  IF c.domain = <<>>
    THEN [ok |-> FALSE,
          message |-> "Missing X-Jira-Domain header. Provide your Jira Cloud domain."]
  ELSE IF ~(Truthy(c.email) /\ Truthy(c.apiToken)) /\ ~Truthy(c.accessToken)
    THEN [ok |-> FALSE,
          message |-> "Missing credentials. Provide either X-Jira-Email + X-Jira-API-Token headers, or X-Jira-Access-Token header."]
  ELSE [ok |-> TRUE, message |-> ""]

\* ------------------------------------------------------------------------
\* The client's URL and auth helpers (src/client.ts)
\* ------------------------------------------------------------------------
BearerPrefix == << "B","e","a","r","e","r"," " >>
BasicPrefix == << "B","a","s","i","c"," " >>

NoAuthHeaders ==
  [threw |-> TRUE, Authorization |-> <<>>, ContentType |-> "", Accept |-> ""]

\* variant of getAuthHeaders that prefers Basic auth when both are given
getAuthHeaders_BasicFirst(c) ==
  IF Truthy(c.email) /\ Truthy(c.apiToken)
    THEN [threw |-> FALSE,
          Authorization |-> BasicPrefix \o btoa(c.email.v \o <<":">> \o c.apiToken.v),
          ContentType |-> "application/json",
          Accept |-> "application/json"]
  ELSE IF Truthy(c.accessToken)
    THEN [threw |-> FALSE,
          Authorization |-> BearerPrefix \o c.accessToken.v,
          ContentType |-> "application/json",
          Accept |-> "application/json"]
  ELSE NoAuthHeaders

getAuthHeaders(c) ==
  IF Truthy(c.accessToken)
    THEN [threw |-> FALSE,
          Authorization |-> BearerPrefix \o c.accessToken.v,
          ContentType |-> "application/json",
          Accept |-> "application/json"]
  ELSE IF Truthy(c.email) /\ Truthy(c.apiToken)
    THEN [threw |-> FALSE,
          Authorization |-> BasicPrefix \o btoa(c.email.v \o <<":">> \o c.apiToken.v),
          ContentType |-> "application/json",
          Accept |-> "application/json"]
  ELSE NoAuthHeaders

NoCredentialsMessage ==
  "No credentials provided. Include X-Jira-Email + X-Jira-API-Token or X-Jira-Access-Token header."

\* variant of BaseUrl that sends every operation to the core REST base
BaseUrl_AlwaysCore(c, useAgile) ==
  [scheme |-> "https", host |-> c.domain, suffix |-> ".atlassian.net",
   path |-> "/rest/api/3"]

\* https://<domain>.atlassian.net/rest/api/3 or .../rest/agile/1.0
BaseUrl(c, useAgile) ==
  [scheme |-> "https", host |-> c.domain, suffix |-> ".atlassian.net",
   path |-> IF useAgile THEN "/rest/agile/1.0" ELSE "/rest/api/3"]

\* ------------------------------------------------------------------------
\* request: the outcome of one vendor response (src/client.ts)
\* ------------------------------------------------------------------------
DefaultRetryAfter == 60

NoneStr == [present |-> FALSE, v |-> ""]
UndefinedValue == [kind |-> "undefined"]

\* a property of a parsed JSON value; undefined when the value has none
Field(body, f) == IF f \in DOMAIN body THEN body[f] ELSE NoneStr

RECURSIVE Join(_, _)
Join(strs, sep) ==
  IF Len(strs) = 0 THEN ""
  ELSE IF Len(strs) = 1 THEN strs[1]
  ELSE strs[1] \o sep \o Join(Tail(strs), sep)

IsOk(status) == status >= 200 /\ status <= 299

DefaultErrorMessage(status) == "Jira API error: " \o ToString(status)

\* variant of ErrorMessage that looks at errors before errorMessages
ErrorMessage_ErrorsFirst(status, body) ==
  IF body.kind \in {"notjson", "null"}
    THEN DefaultErrorMessage(status)
  ELSE
    LET em == Field(body, "errorMessages")
        er == Field(body, "errors")
        ms == Field(body, "message")
    IN IF er.present
         THEN Join([i \in 1..Len(er.v) |-> er.v[i][1] \o ": " \o er.v[i][2]], "; ")
       ELSE IF em.present /\ Len(em.v) > 0
         THEN Join(em.v, "; ")
       ELSE IF ms.present /\ ms.v # ""
         THEN ms.v
       ELSE DefaultErrorMessage(status)

\* the message of the generic API error, from the body text
ErrorMessage(status, body) ==
  IF body.kind \in {"notjson", "null"}
    THEN DefaultErrorMessage(status)
  ELSE
    LET em == Field(body, "errorMessages")
        er == Field(body, "errors")
        ms == Field(body, "message")
    IN IF em.present /\ Len(em.v) > 0
         THEN Join(em.v, "; ")
       ELSE IF er.present
         THEN Join([i \in 1..Len(er.v) |-> er.v[i][1] \o ": " \o er.v[i][2]], "; ")
       ELSE IF ms.present /\ ms.v # ""
         THEN ms.v
       ELSE DefaultErrorMessage(status)

Outcome(kind, message, statusCode, retryAfter, value, bodyReads) ==
  [kind |-> kind, message |-> message, statusCode |-> statusCode,
   retryAfter |-> retryAfter, value |-> value, bodyReads |-> bodyReads]

\* retryAfter ? Number.parseInt(retryAfter, 10) : 60
RetryAfterHint(header) ==
  IF Truthy(header) THEN parseInt(header.v) ELSE Num(DefaultRetryAfter)

\* status 429
RateLimitFailure(resp) ==
  Outcome("RateLimitError", "Rate limit exceeded", 0,
          RetryAfterHint(resp.retryAfter), UndefinedValue, 0)

\* status 401
AuthenticationFailure(resp) ==
  Outcome("AuthenticationError", "Authentication failed. Check your credentials.",
          0, NaN, UndefinedValue, 0)

\* any other status outside 200..299: the body text is read and parsed
GenericFailure(resp) ==
  Outcome("JiraApiError", ErrorMessage(resp.status, resp.body),
          resp.status, NaN, UndefinedValue, 1)

\* variant of PermissionFailure that treats 403 like any other error status
PermissionFailure_AsGeneric(resp) == GenericFailure(resp)

\* status 403
PermissionFailure(resp) ==
  Outcome("JiraApiError", "Permission denied. Check your access rights.",
          403, NaN, UndefinedValue, 0)

\* response.json(): the parsed body, or a rejection when it is no JSON
ParsedBody(resp) ==
  IF resp.body.kind = "notjson"
    THEN Outcome("SyntaxError", "Unexpected token in JSON", 0, NaN, UndefinedValue, 1)
    ELSE Outcome("ok", "", 0, NaN, resp.body, 1)

\* variant of Success that parses the body of a 204 as well
Success_No204(resp) == ParsedBody(resp)

\* status 200..299: undefined for 204 No Content, else the parsed body
Success(resp) ==
  IF resp.status = 204
    THEN Outcome("ok", "", 0, NaN, UndefinedValue, 0)
    ELSE ParsedBody(resp)

\* what request() throws or returns once fetch has resolved with resp
RequestOutcome(resp) ==
  IF resp.status = 429 THEN RateLimitFailure(resp)
  ELSE IF resp.status = 401 THEN AuthenticationFailure(resp)
  ELSE IF resp.status = 403 THEN PermissionFailure(resp)
  ELSE IF ~IsOk(resp.status) THEN GenericFailure(resp)
  ELSE Success(resp)

\* getAuthHeaders() threw while the fetch arguments were built
NoCredentialsOutcome ==
  Outcome("AuthenticationError", NoCredentialsMessage, 0, NaN, UndefinedValue, 0)

\* ------------------------------------------------------------------------
\* The tools (src/tools/*.ts, src/index.ts) and the client methods they call
\* ------------------------------------------------------------------------
\* tools that return a paginated client result as it is
PaginatedTools ==
  { "jira_get_changelog", "jira_get_comments", "jira_get_worklogs",
    "jira_list_projects", "jira_get_project_versions", "jira_list_groups",
    "jira_get_group_members", "jira_list_dashboards", "jira_list_boards",
    "jira_list_sprints", "jira_list_epics", "jira_get_labels" }

\* tools that build the envelope themselves from a vendor search result
IssueListTools ==
  { "jira_search_issues", "jira_get_board_issues", "jira_get_backlog_issues",
    "jira_get_sprint_issues", "jira_get_epic_issues" }

\* tools that build the envelope from a bare vendor array of users
UserListTools == { "jira_search_users", "jira_find_assignable_users" }

\* tools that return a bare vendor array as it is
ArrayTools == { "jira_get_my_filters", "jira_get_favourite_filters" }

ConnectionTools == { "jira_test_connection", "jira_get_myself" }

ListTools == PaginatedTools \cup IssueListTools \cup UserListTools \cup ArrayTools

Tools == ListTools \cup ConnectionTools

\* tools whose schema has startAt and maxResults
PagedTools == PaginatedTools \cup IssueListTools \cup UserListTools

\* the third argument of request(): the agile REST base
UseAgile(tool) ==
  tool \in { "jira_list_boards", "jira_list_sprints", "jira_list_epics",
             "jira_get_board_issues", "jira_get_backlog_issues",
             "jira_get_sprint_issues", "jira_get_epic_issues" }

Method(tool) == IF tool = "jira_search_issues" THEN "POST" ELSE "GET"

\* zod: maxResults .default(50)
DefaultMaxResults == 50

\* if (params?.x) queryParams.set('x', String(params.x))
QueryParam(n) == IF n # 0 THEN [set |-> TRUE, n |-> n] ELSE [set |-> FALSE, n |-> 0]

\* the offset and limit a client method sends for a tool call
SentStartAt(cl) ==
  IF cl.tool \notin PagedTools THEN [set |-> FALSE, n |-> 0]
  ELSE IF cl.tool = "jira_search_issues"
    THEN [set |-> TRUE, n |-> IF cl.startAt # 0 THEN cl.startAt ELSE 0]
  ELSE QueryParam(cl.startAt)

\* variant of SentMaxResults that clamps the limit to 20
SentMaxResults_Clamped(cl) ==
  IF cl.tool \notin PagedTools THEN [set |-> FALSE, n |-> 0]
  ELSE [set |-> TRUE, n |-> IF cl.maxResults > 20 THEN 20 ELSE cl.maxResults]

SentMaxResults(cl) ==
  IF cl.tool \notin PagedTools THEN [set |-> FALSE, n |-> 0]
  ELSE IF cl.tool = "jira_search_issues"
    THEN [set |-> TRUE, n |-> IF cl.maxResults # 0 THEN cl.maxResults ELSE 50]
  ELSE QueryParam(cl.maxResults)

\* the arguments request() hands to fetch; headers is getAuthHeaders()'s result
Outbound(c, cl, headers) ==
  [ url |-> BaseUrl(c, UseAgile(cl.tool)),
    method |-> Method(cl.tool),
    Authorization |-> headers.Authorization,
    ContentType |-> headers.ContentType,
    Accept |-> headers.Accept,
    startAt |-> SentStartAt(cl),
    maxResults |-> SentMaxResults(cl) ]

\* ------------------------------------------------------------------------
\* Pagination envelopes
\* ------------------------------------------------------------------------
\* variants of Envelope with a slip in one field
Envelope_PageEnd(r) ==
  [ items |-> r.items,
    count |-> Len(r.items),
    total |-> r.total,
    startAt |-> r.startAt,
    maxResults |-> r.maxResults,
    hasMore |-> r.startAt + r.maxResults < r.total ]

Envelope_CountIsPageSize(r) ==
  [ items |-> r.items,
    count |-> r.maxResults,
    total |-> r.total,
    startAt |-> r.startAt,
    maxResults |-> r.maxResults,
    hasMore |-> r.startAt + Len(r.items) < r.total ]

Envelope_TotalIsCount(r) ==
  [ items |-> r.items,
    count |-> Len(r.items),
    total |-> Len(r.items),
    startAt |-> r.startAt,
    maxResults |-> r.maxResults,
    hasMore |-> r.startAt + Len(r.items) < r.total ]

\* the 12 paginated client methods and the 5 issue-list tools
Envelope(r) ==
  [ items |-> r.items,
    count |-> Len(r.items),
    total |-> r.total,
    startAt |-> r.startAt,
    maxResults |-> r.maxResults,
    hasMore |-> r.startAt + Len(r.items) < r.total ]

\* jira_search_users, jira_find_assignable_users
UserEnvelope(users, cl) ==
  [ items |-> users,
    count |-> Len(users),
    startAt |-> cl.startAt,
    maxResults |-> cl.maxResults,
    hasMore |-> Len(users) = cl.maxResults ]

\* ------------------------------------------------------------------------
\* Tool responses (src/utils/formatters.ts)
\* ------------------------------------------------------------------------
\* formatResponse: the data serialized as JSON or rendered as Markdown
formatResponse(data, format, shape) ==
  [isError |-> FALSE, shape |-> shape, format |-> format, data |-> data, text |-> ""]

\* utils/errors.ts: the rate-limit failure is the retryable one
Retryable(o) == o.kind = "RateLimitError"

formatErrorResponse(o) ==
  [ isError |-> TRUE, shape |-> "error", format |-> "json", data |-> UndefinedValue,
    text |-> "Error: " \o o.message \o (IF Retryable(o) THEN " (retryable)" ELSE "") ]

TypeErrorOutcome ==
  Outcome("TypeError", "Cannot read properties of undefined", 0, NaN, UndefinedValue, 0)

\* variant of testConnection that reports every failure as "Connection failed"
testConnection_FixedMessage(o) ==
  IF o.kind = "ok" /\ o.value.kind = "myself"
    THEN [connected |-> TRUE, message |-> "Connected as " \o o.value.displayName]
    ELSE [connected |-> FALSE, message |-> "Connection failed"]

\* testConnection: never throws, the failure becomes connected: false
testConnection(o) ==
  IF o.kind = "ok" /\ o.value.kind = "myself"
    THEN [connected |-> TRUE, message |-> "Connected as " \o o.value.displayName]
  ELSE IF o.kind = "ok"
    THEN [connected |-> FALSE, message |-> TypeErrorOutcome.message]
  ELSE [connected |-> FALSE, message |-> o.message]

\* the handler of a tool, from the outcome o of its client call on
ToolResponse(cl, o) ==
  IF cl.tool = "jira_test_connection"
    THEN formatResponse(testConnection(o), "json", "connection")
  ELSE IF cl.tool = "jira_get_myself"
    THEN IF o.kind = "ok"
           THEN formatResponse(o.value, "json", "object")
           ELSE [ isError |-> TRUE, shape |-> "error", format |-> "json",
                  data |-> UndefinedValue,
                  text |-> "Failed to get user: " \o o.message ]
  ELSE IF o.kind # "ok"
    THEN formatErrorResponse(o)
  ELSE IF cl.tool \in ArrayTools
    THEN IF o.value.kind = "array"
           THEN formatResponse(o.value.items, "json", "array")
           ELSE formatResponse(o.value, "json", "object")
  ELSE IF cl.tool \in UserListTools
    THEN IF o.value.kind = "array"
           THEN formatResponse(UserEnvelope(o.value.items, cl), cl.format, "envelope")
           ELSE formatErrorResponse(TypeErrorOutcome)
  ELSE IF o.value.kind # "envelope"
    THEN formatErrorResponse(TypeErrorOutcome)
  ELSE IF cl.tool = "jira_get_labels"
    THEN formatResponse(Envelope(o.value), "json", "envelope")
  ELSE formatResponse(Envelope(o.value), cl.format, "envelope")

\* ------------------------------------------------------------------------
\* Explored inputs
\* ------------------------------------------------------------------------
Domain1 == << "a","c","m","e" >>
Email1 == << "a","@","b" >>
Email2 == << "a","b" >>
ApiToken1 == << "x","y" >>
ApiToken2 == << "z" >>
AccessToken1 == << "k","x","y" >>

\* the four X-Jira-* headers of an inbound request: absent, empty or a value
TenantHeaders ==
  [ domain : {None, Some(<<>>), Some(Domain1)},
    email : {None, Some(Email1)},
    apiToken : {None, Some(<<>>), Some(ApiToken1)},
    accessToken : {None, Some(<<>>), Some(AccessToken1)} ]

\* credentials a client can be constructed with (createJiraClient)
ClientCredentials ==
  [ domain : {Domain1},
    email : {None, Some(<<>>), Some(Email1), Some(Email2)},
    apiToken : {None, Some(<<>>), Some(ApiToken1), Some(ApiToken2)},
    accessToken : {None, Some(<<>>), Some(AccessToken1)} ]

Paths == {"/health", "/mcp", "/sse", "/"}
Methods == {"GET", "POST", "DELETE"}
Rpcs == {"tools/call", "tools/list"}

\* arguments that pass the tools' zod schemas
PageSizes == {1, 2, DefaultMaxResults}

ToolCalls ==
  [ tool : PagedTools \ {"jira_get_labels"}, startAt : 0..MaxStartAt,
    maxResults : PageSizes, format : {"json", "markdown"} ]
  \cup [ tool : {"jira_get_labels"}, startAt : 0..MaxStartAt, maxResults : PageSizes,
         format : {"json"} ]
  \cup [ tool : Tools \ PagedTools, startAt : {0}, maxResults : {0}, format : {"json"} ]

NoCall == [tool |-> "none", startAt |-> 0, maxResults |-> 0, format |-> "json"]

\* vendor bodies
NotJson == [kind |-> "notjson"]
JsonNull == [kind |-> "null"]

Items(startAt, n) == [i \in 1..n |-> startAt + i]

ErrorBodies ==
  { NotJson, JsonNull }
  \cup [ kind : {"object"},
         errorMessages : { None, Some(<<>>), Some(<<"Issue does not exist">>),
                           Some(<<"m1", "m2">>) },
         errors : { None, Some(<<>>), Some(<< <<"summary", "is required">> >>),
                    Some(<< <<"f1", "e1">>, <<"f2", "e2">> >>) },
         message : { NoneStr, [present |-> TRUE, v |-> ""],
                     [present |-> TRUE, v |-> "Not Found"] } ]

FewErrorBodies ==
  { NotJson,
    [kind |-> "object", errorMessages |-> Some(<<"m1", "m2">>), errors |-> None,
     message |-> NoneStr],
    [kind |-> "object", errorMessages |-> None, errors |-> None,
     message |-> [present |-> TRUE, v |-> "Not Found"]] }

\* the vendor's own page size: the requested one, or its own limit
VendorEnvelopes(cl) ==
  [ kind : {"envelope"}, startAt : 0..MaxStartAt, maxResults : {cl.maxResults, 1},
    total : 0..MaxTotal, items : {Items(0, n) : n \in 0..MaxItems} ]

\* {startAt: 0, maxResults: 50, total: 120, issues: [...50 items...]}
ExampleSearchResult ==
  [ kind |-> "envelope", startAt |-> 0, maxResults |-> 50, total |-> 120,
    items |-> Items(0, 50) ]

VendorArrays == [ kind : {"array"}, items : {Items(0, n) : n \in 0..MaxItems} ]

Myself == [kind |-> "myself", displayName |-> "Ann"]

SuccessBodies(cl) ==
  IF cl.tool \in PaginatedTools \cup IssueListTools
    THEN VendorEnvelopes(cl)
         \cup (IF cl.tool = "jira_search_issues" /\ cl.maxResults = 50
                 THEN {ExampleSearchResult} ELSE {})
  ELSE IF cl.tool \in UserListTools \cup ArrayTools
    THEN VendorArrays
  ELSE {Myself}

RetryAfterHeaders ==
  { None, Some(<<>>), Some(<<"0">>), Some(<<"7">>), Some(<<"1","2","0">>),
    Some(<<"3","s">>), Some(<<"W","e","d">>) }

Response(status, retryAfter, body) ==
  [status |-> status, retryAfter |-> retryAfter, body |-> body]

VendorResponses(cl) ==
  { Response(429, r, b) : r \in RetryAfterHeaders, b \in {NotJson} }
  \cup { Response(s, None, b) : s \in {401, 403}, b \in FewErrorBodies }
  \cup { Response(404, None, b) : b \in ErrorBodies }
  \cup { Response(s, None, b) : s \in {400, 500}, b \in FewErrorBodies }
  \cup { Response(200, None, b) : b \in SuccessBodies(cl) \cup {NotJson} }
  \cup { Response(201, None, b) : b \in {JsonNull} }
  \cup { Response(204, None, b) : b \in {NotJson, JsonNull} }

NoResponse == Response(0, None, NotJson)
NoOutcome == Outcome("none", "", 0, NaN, UndefinedValue, 0)
NoToolResponse ==
  [isError |-> FALSE, shape |-> "none", format |-> "json", data |-> UndefinedValue,
   text |-> ""]
NoCredentials ==
  [domain |-> <<>>, email |-> None, apiToken |-> None, accessToken |-> None]
NoHeaders ==
  [domain |-> None, email |-> None, apiToken |-> None, accessToken |-> None]
NoInbound == [path |-> "", method |-> "", headers |-> NoHeaders, rpc |-> ""]
NoHttpResponse == [status |-> 0, kind |-> "none", message |-> "", required_headers |-> <<>>]

\* ------------------------------------------------------------------------
\* State
\* ------------------------------------------------------------------------
VARIABLES
  pc,             \* "idle", "awaiting" (a vendor call is in flight), "responded"
  inbound,        \* the inbound HTTP request being served or served last
  creds,          \* the credentials the client was created with
  serverCreated,  \* createStatelessServer ran for the inbound request
  call,           \* the tool call of the inbound request
  sent,           \* the outbound vendor requests issued for it, in order
  vresp,          \* the vendor response received last
  outcome,        \* what request() returned or threw last
  toolResp,       \* what the tool handler returned
  httpResp        \* the response to the inbound request

vars == << pc, inbound, creds, serverCreated, call, sent, vresp, outcome, toolResp, httpResp >>

Init ==
  /\ pc = "idle"
  /\ inbound = NoInbound
  /\ creds = NoCredentials
  /\ serverCreated = FALSE
  /\ call = NoCall
  /\ sent = <<>>
  /\ vresp = NoResponse
  /\ outcome = NoOutcome
  /\ toolResp = NoToolResponse
  /\ httpResp = NoHttpResponse

\* ------------------------------------------------------------------------
\* The worker's fetch handler (src/index.ts)
\* ------------------------------------------------------------------------
HttpResponse(status, kind, message, required) ==
  [status |-> status, kind |-> kind, message |-> message, required_headers |-> required]

RequiredHeaders ==
  << "X-Jira-Domain", "X-Jira-Email + X-Jira-API-Token (or X-Jira-Access-Token)" >>

\* a response that needs no server: nothing is created, run or sent
Answer(req, resp) ==
  /\ inbound' = req
  /\ httpResp' = resp
  /\ creds' = NoCredentials
  /\ serverCreated' = FALSE
  /\ call' = NoCall
  /\ sent' = <<>>
  /\ vresp' = NoResponse
  /\ outcome' = NoOutcome
  /\ toolResp' = NoToolResponse
  /\ pc' = "responded"

\* POST /mcp with valid credentials: the server is created and the message handled;
\* a tools/call runs the tool's handler up to its vendor call
Serve(req, c) ==
  /\ inbound' = req
  /\ creds' = c
  /\ serverCreated' = TRUE
  /\ vresp' = NoResponse
  /\ outcome' = IF req.rpc = "tools/call" /\ getAuthHeaders(c).threw
                  THEN NoCredentialsOutcome ELSE NoOutcome
  /\ IF req.rpc = "tools/list"
       THEN /\ call' = NoCall
            /\ toolResp' = NoToolResponse
            /\ sent' = <<>>
            /\ httpResp' = HttpResponse(200, "mcp", "", <<>>)
            /\ pc' = "responded"
       ELSE \E cl \in ToolCalls :
            /\ call' = cl
            /\ toolResp' = IF getAuthHeaders(c).threw
                             THEN ToolResponse(cl, NoCredentialsOutcome)
                             ELSE NoToolResponse
            /\ IF getAuthHeaders(c).threw
                 THEN /\ sent' = <<>>
                      /\ httpResp' = HttpResponse(200, "mcp", "", <<>>)
                      /\ pc' = "responded"
                 ELSE /\ sent' = << Outbound(c, cl, getAuthHeaders(c)) >>
                      /\ httpResp' = NoHttpResponse
                      /\ pc' = "awaiting"

\* variant of Route that serves /health and /sse to GET requests only
Route_GetOnly(path, method) ==
  IF path = "/health" /\ method = "GET" THEN "health"
  ELSE IF path = "/mcp" /\ method = "POST" THEN "mcp"
  ELSE IF path = "/sse" /\ method = "GET" THEN "sse"
  ELSE "info"

\* the branch of fetch a request takes: the path, and for /mcp the method
Route(path, method) ==
  IF path = "/health" THEN "health"
  ELSE IF path = "/mcp" /\ method = "POST" THEN "mcp"
  ELSE IF path = "/sse" THEN "sse"
  ELSE "info"

SseMessage == "SSE endpoint requires Durable Objects. Enable in wrangler.jsonc."

fetch ==
  /\ pc = "idle"
  /\ \E path \in Paths, method \in Methods, h \in TenantHeaders, rpc \in Rpcs :
       LET route == Route(path, method)
           req == [path |-> path, method |-> method, headers |-> h,
                   rpc |-> IF path = "/mcp" /\ method = "POST" THEN rpc ELSE ""]
           c == parseTenantCredentials(h)
           v == validateCredentials(c)
       IN IF route = "health"
            THEN Answer(req, HttpResponse(200, "health", "ok", <<>>))
          ELSE IF route = "mcp"
            THEN IF ~v.ok
                   THEN Answer(req, HttpResponse(401, "Unauthorized", v.message,
                                                 RequiredHeaders))
                   ELSE Serve(req, c)
          ELSE IF route = "sse"
            THEN Answer(req, HttpResponse(501, "sse", SseMessage, <<>>))
          ELSE Answer(req, HttpResponse(200, "info", "", <<>>))

\* the vendor answers the call in flight; request() and then the tool handler finish
vendorRespond ==
  /\ pc = "awaiting"
  /\ \E r \in VendorResponses(call) :
       /\ vresp' = r
       /\ outcome' = RequestOutcome(r)
       /\ toolResp' = ToolResponse(call, RequestOutcome(r))
  /\ httpResp' = HttpResponse(200, "mcp", "", <<>>)
  /\ pc' = "responded"
  /\ UNCHANGED << inbound, creds, serverCreated, call, sent >>

\* the response is returned; the server, the client and everything else created for
\* the request go out of scope (nothing is kept between requests)
deliver ==
  /\ pc = "responded"
  /\ pc' = "idle"
  /\ inbound' = NoInbound
  /\ creds' = NoCredentials
  /\ serverCreated' = FALSE
  /\ call' = NoCall
  /\ sent' = <<>>
  /\ vresp' = NoResponse
  /\ outcome' = NoOutcome
  /\ toolResp' = NoToolResponse
  /\ httpResp' = NoHttpResponse

Next == fetch \/ vendorRespond \/ deliver

Spec == Init /\ [][Next]_vars

\* ------------------------------------------------------------------------
\* The client on its own: constructed with any credentials (createJiraClient),
\* its methods called directly
\* ------------------------------------------------------------------------
ClientCalls ==
  { cl \in ToolCalls :
      /\ cl.tool \in {"jira_get_myself", "jira_list_boards", "jira_search_issues"}
      /\ cl.format = "json" }

InitClient ==
  /\ pc = "client"
  /\ creds \in ClientCredentials
  /\ inbound = NoInbound
  /\ serverCreated = FALSE
  /\ call = NoCall
  /\ sent = <<>>
  /\ vresp = NoResponse
  /\ outcome = NoOutcome
  /\ toolResp = NoToolResponse
  /\ httpResp = NoHttpResponse

\* a client method calls request(): the headers are resolved, then fetch is called
clientRequest ==
  /\ pc = "client"
  /\ \E cl \in ClientCalls :
       /\ call' = cl
       /\ IF getAuthHeaders(creds).threw
            THEN /\ outcome' = NoCredentialsOutcome
                 /\ sent' = sent
                 /\ pc' = "clientDone"
            ELSE /\ outcome' = NoOutcome
                 /\ sent' = Append(sent, Outbound(creds, cl, getAuthHeaders(creds)))
                 /\ pc' = "clientAwaiting"
  /\ UNCHANGED << inbound, creds, serverCreated, vresp, toolResp, httpResp >>

\* fetch resolves; request() returns or throws
clientRespond ==
  /\ pc = "clientAwaiting"
  /\ \E r \in VendorResponses(call) :
       /\ vresp' = r
       /\ outcome' = RequestOutcome(r)
  /\ pc' = "clientDone"
  /\ UNCHANGED << inbound, creds, serverCreated, call, sent, toolResp, httpResp >>

NextClient == clientRequest \/ clientRespond

SpecClient == InitClient /\ [][NextClient]_vars

\* ------------------------------------------------------------------------
\* Configuration knobs (src/types/env.ts)
\* ------------------------------------------------------------------------
Undefined == [typeof |-> "undefined"]
EnvString(chars) == [typeof |-> "string", v |-> chars]

\* variant of getEnvNumber without the Number.isNaN guard
getEnvNumber_Unguarded(env, key, defaultValue) ==
  LET value == env[key]
  IN IF value.typeof = "string" THEN parseInt(value.v).n ELSE defaultValue

getEnvNumber(env, key, defaultValue) ==
  LET value == env[key]
  IN IF value.typeof = "string"
       THEN LET parsed == parseInt(value.v)
            IN IF parsed.nan THEN defaultValue ELSE parsed.n
       ELSE defaultValue

getCharacterLimit(env) == getEnvNumber(env, "CHARACTER_LIMIT", 50000)
getDefaultPageSize(env) == getEnvNumber(env, "DEFAULT_PAGE_SIZE", 20)
getMaxPageSize(env) == getEnvNumber(env, "MAX_PAGE_SIZE", 100)

\* values a binding of the environment can have: unset, strings, and a value
\* that is no string
EnvValues ==
  { Undefined, [typeof |-> "number", n |-> 30],
    EnvString(<<>>), EnvString(<<"0">>), EnvString(<<"2","5">>),
    EnvString(<<"1","2","p","x">>), EnvString(<<" ","7">>), EnvString(<<"-","3">>),
    EnvString(<<"a","b","c">>) }

Envs ==
  [ CHARACTER_LIMIT : EnvValues, DEFAULT_PAGE_SIZE : EnvValues,
    MAX_PAGE_SIZE : EnvValues ]

\* the environment is in call, the knob read last in outcome
InitEnv ==
  /\ pc = "env"
  /\ call \in Envs
  /\ outcome = NoOutcome
  /\ inbound = NoInbound
  /\ creds = NoCredentials
  /\ serverCreated = FALSE
  /\ sent = <<>>
  /\ vresp = NoResponse
  /\ toolResp = NoToolResponse
  /\ httpResp = NoHttpResponse

ReadKnob(key, n) ==
  /\ pc \in {"env", "envRead"}
  /\ pc' = "envRead"
  /\ outcome' = [key |-> key, n |-> n]
  /\ UNCHANGED << inbound, creds, serverCreated, call, sent, vresp, toolResp, httpResp >>

readCharacterLimit == ReadKnob("CHARACTER_LIMIT", getCharacterLimit(call))
readDefaultPageSize == ReadKnob("DEFAULT_PAGE_SIZE", getDefaultPageSize(call))
readMaxPageSize == ReadKnob("MAX_PAGE_SIZE", getMaxPageSize(call))

NextEnv == readCharacterLimit \/ readDefaultPageSize \/ readMaxPageSize

SpecEnv == InitEnv /\ [][NextEnv]_vars

\* ------------------------------------------------------------------------
\* The list tools' input schemas (zod) in front of their handlers
\* ------------------------------------------------------------------------
\* a raw JSON argument: a number (integral or not), or another type
RawNumber(n) == [typeof |-> "number", integer |-> TRUE, n |-> n]
RawFraction(n) == [typeof |-> "number", integer |-> FALSE, n |-> n]

\* maxResults: z.number().int().min(1).max(100).default(50), and for
\* jira_get_labels .max(1000).default(100)
SchemaMax(tool) == IF tool = "jira_get_labels" THEN 1000 ELSE 100
SchemaDefault(tool) == IF tool = "jira_get_labels" THEN 100 ELSE DefaultMaxResults

\* z.number().int().min(lo).default(dflt), with .max(hi) when hasMax
ZodInt(raw, lo, hasMax, hi, dflt) ==
  IF raw.typeof = "undefined" THEN [ok |-> TRUE, n |-> dflt]
  ELSE IF /\ raw.typeof = "number"
          /\ raw.integer
          /\ raw.n >= lo
          /\ (hasMax => raw.n <= hi)
    THEN [ok |-> TRUE, n |-> raw.n]
  ELSE [ok |-> FALSE, n |-> 0]

RawMaxResults ==
  { Undefined, EnvString(<<"5","0">>), RawFraction(1), RawNumber(0 - 1) }
  \cup { RawNumber(n) : n \in {0, 1, 20, 50, 100, 101, 1000, 1001} }

RawStartAts == { Undefined, RawNumber(0 - 1), RawNumber(0), RawNumber(MaxStartAt) }

SchemaCredentials ==
  [domain |-> Domain1, email |-> None, apiToken |-> None,
   accessToken |-> Some(AccessToken1)]

\* a server created for a valid request; the raw arguments of its tool call are
\* kept in vresp (no vendor response is modelled here)
InitSchema ==
  /\ pc = "schema"
  /\ creds = SchemaCredentials
  /\ serverCreated = TRUE
  /\ inbound = NoInbound
  /\ call = NoCall
  /\ sent = <<>>
  /\ vresp = [startAt |-> Undefined, maxResults |-> Undefined]
  /\ outcome = NoOutcome
  /\ toolResp = NoToolResponse
  /\ httpResp = NoHttpResponse

\* a tools/call of a list tool: the arguments are parsed against the schema; the
\* handler runs with the parsed arguments, up to the client's fetch, only if they
\* are valid
toolCall ==
  /\ pc = "schema"
  /\ \E tool \in PagedTools, rawStart \in RawStartAts, rawMax \in RawMaxResults :
       LET st == ZodInt(rawStart, 0, FALSE, 0, 0)
           mx == ZodInt(rawMax, 1, TRUE, SchemaMax(tool), SchemaDefault(tool))
           cl == [tool |-> tool, startAt |-> st.n, maxResults |-> mx.n,
                  format |-> "json"]
       IN /\ vresp' = [startAt |-> rawStart, maxResults |-> rawMax]
          /\ IF st.ok /\ mx.ok
               THEN /\ call' = cl
                    /\ sent' = << Outbound(creds, cl, getAuthHeaders(creds)) >>
                    /\ pc' = "schemaAccepted"
               ELSE /\ call' = [tool |-> tool, startAt |-> 0, maxResults |-> 0,
                                format |-> "json"]
                    /\ sent' = <<>>
                    /\ pc' = "schemaRejected"
  /\ UNCHANGED << inbound, creds, serverCreated, outcome, toolResp, httpResp >>

\* the call is over; the next one starts from scratch
toolReturn ==
  /\ pc \in {"schemaAccepted", "schemaRejected"}
  /\ pc' = "schema"
  /\ call' = NoCall
  /\ sent' = <<>>
  /\ vresp' = [startAt |-> Undefined, maxResults |-> Undefined]
  /\ UNCHANGED << inbound, creds, serverCreated, outcome, toolResp, httpResp >>

NextSchema == toolCall \/ toolReturn

SpecSchema == InitSchema /\ [][NextSchema]_vars

\* ------------------------------------------------------------------------
\* The client's operations, one by one (src/client.ts)
\* ------------------------------------------------------------------------
\* every method of the client: its name, the HTTP method of its request() call,
\* whether that call passes useAgile, and whether it passes a body; each method
\* calls request() exactly once (testConnection through getMyself, getAttachments
\* through getIssue) and none passes headers of its own
ClientOps ==
  { <<"testConnection", "GET", FALSE, FALSE>>, <<"getMyself", "GET", FALSE, FALSE>>,
    <<"searchIssues", "POST", FALSE, TRUE>>, <<"getIssue", "GET", FALSE, FALSE>>,
    <<"createIssue", "POST", FALSE, TRUE>>, <<"updateIssue", "PUT", FALSE, TRUE>>,
    <<"deleteIssue", "DELETE", FALSE, FALSE>>, <<"assignIssue", "PUT", FALSE, TRUE>>,
    <<"getTransitions", "GET", FALSE, FALSE>>,
    <<"transitionIssue", "POST", FALSE, TRUE>>,
    <<"getChangelog", "GET", FALSE, FALSE>>,
    <<"createIssueLink", "POST", FALSE, TRUE>>,
    <<"deleteIssueLink", "DELETE", FALSE, FALSE>>,
    <<"getIssueLinkTypes", "GET", FALSE, FALSE>>,
    <<"getComments", "GET", FALSE, FALSE>>, <<"getComment", "GET", FALSE, FALSE>>,
    <<"addComment", "POST", FALSE, TRUE>>, <<"updateComment", "PUT", FALSE, TRUE>>,
    <<"deleteComment", "DELETE", FALSE, FALSE>>,
    <<"getWorklogs", "GET", FALSE, FALSE>>, <<"addWorklog", "POST", FALSE, TRUE>>,
    <<"updateWorklog", "PUT", FALSE, TRUE>>,
    <<"deleteWorklog", "DELETE", FALSE, FALSE>>,
    <<"getAttachments", "GET", FALSE, FALSE>>,
    <<"deleteAttachment", "DELETE", FALSE, FALSE>>,
    <<"getWatchers", "GET", FALSE, FALSE>>, <<"addWatcher", "POST", FALSE, TRUE>>,
    <<"removeWatcher", "DELETE", FALSE, FALSE>>, <<"getVotes", "GET", FALSE, FALSE>>,
    <<"addVote", "POST", FALSE, FALSE>>, <<"removeVote", "DELETE", FALSE, FALSE>>,
    <<"listProjects", "GET", FALSE, FALSE>>, <<"getProject", "GET", FALSE, FALSE>>,
    <<"createProject", "POST", FALSE, TRUE>>, <<"updateProject", "PUT", FALSE, TRUE>>,
    <<"deleteProject", "DELETE", FALSE, FALSE>>,
    <<"getProjectRoles", "GET", FALSE, FALSE>>,
    <<"getProjectRole", "GET", FALSE, FALSE>>,
    <<"getProjectComponents", "GET", FALSE, FALSE>>,
    <<"getComponent", "GET", FALSE, FALSE>>,
    <<"createComponent", "POST", FALSE, TRUE>>,
    <<"updateComponent", "PUT", FALSE, TRUE>>,
    <<"deleteComponent", "DELETE", FALSE, FALSE>>,
    <<"getProjectVersions", "GET", FALSE, FALSE>>,
    <<"getVersion", "GET", FALSE, FALSE>>, <<"createVersion", "POST", FALSE, TRUE>>,
    <<"updateVersion", "PUT", FALSE, TRUE>>,
    <<"deleteVersion", "DELETE", FALSE, FALSE>>,
    <<"releaseVersion", "PUT", FALSE, TRUE>>, <<"getIssueTypes", "GET", FALSE, FALSE>>,
    <<"getIssueTypesForProject", "GET", FALSE, FALSE>>,
    <<"getPriorities", "GET", FALSE, FALSE>>, <<"getStatuses", "GET", FALSE, FALSE>>,
    <<"getStatusesForProject", "GET", FALSE, FALSE>>,
    <<"getResolutions", "GET", FALSE, FALSE>>, <<"getFields", "GET", FALSE, FALSE>>,
    <<"getUser", "GET", FALSE, FALSE>>, <<"findUsers", "GET", FALSE, FALSE>>,
    <<"findAssignableUsers", "GET", FALSE, FALSE>>,
    <<"getGroups", "GET", FALSE, FALSE>>, <<"getGroupMembers", "GET", FALSE, FALSE>>,
    <<"getMyFilters", "GET", FALSE, FALSE>>,
    <<"getFavouriteFilters", "GET", FALSE, FALSE>>,
    <<"getFilter", "GET", FALSE, FALSE>>, <<"createFilter", "POST", FALSE, TRUE>>,
    <<"updateFilter", "PUT", FALSE, TRUE>>, <<"deleteFilter", "DELETE", FALSE, FALSE>>,
    <<"getDashboards", "GET", FALSE, FALSE>>, <<"getDashboard", "GET", FALSE, FALSE>>,
    <<"getBoards", "GET", TRUE, FALSE>>, <<"getBoard", "GET", TRUE, FALSE>>,
    <<"getBoardIssues", "GET", TRUE, FALSE>>,
    <<"getBacklogIssues", "GET", TRUE, FALSE>>, <<"getSprints", "GET", TRUE, FALSE>>,
    <<"getSprint", "GET", TRUE, FALSE>>, <<"getSprintIssues", "GET", TRUE, FALSE>>,
    <<"createSprint", "POST", TRUE, TRUE>>, <<"updateSprint", "PUT", TRUE, TRUE>>,
    <<"deleteSprint", "DELETE", TRUE, FALSE>>, <<"startSprint", "POST", TRUE, TRUE>>,
    <<"completeSprint", "POST", TRUE, TRUE>>,
    <<"moveIssuesToSprint", "POST", TRUE, TRUE>>,
    <<"moveIssuesToBacklog", "POST", TRUE, TRUE>>, <<"getEpics", "GET", TRUE, FALSE>>,
    <<"getEpic", "GET", TRUE, FALSE>>, <<"getEpicIssues", "GET", TRUE, FALSE>>,
    <<"moveIssuesToEpic", "POST", TRUE, TRUE>>,
    <<"removeIssuesFromEpic", "POST", TRUE, TRUE>>,
    <<"getServerInfo", "GET", FALSE, FALSE>>, <<"getLabels", "GET", FALSE, FALSE>> }

OpOf(name) == CHOOSE o \in ClientOps : o[1] = name

\* JavaScript values: strings, null, and the truthiness of a parameter
JsString(s) == [typeof |-> "string", s |-> s]
JsNull == [typeof |-> "null"]
JsTruthy(v) == v.typeof = "object" \/ (v.typeof = "string" /\ v.s # "")

\* variant of toADF that wraps whatever it is given
toADF_AlwaysWrap(text) ==
  [ typeof |-> "object", type |-> "doc", version |-> 1,
    content |-> << [ type |-> "paragraph",
                     content |-> << [ type |-> "text",
                                      text |-> IF text.typeof = "string"
                                                 THEN text.s
                                                 ELSE "[object Object]" ] >> ] >> ]

toADF(text) ==
  IF text.typeof = "object" /\ text.type = "doc"
    THEN text
    ELSE [ typeof |-> "object", type |-> "doc", version |-> 1,
           content |-> << [ type |-> "paragraph",
                            content |-> << [type |-> "text", text |-> text.s] >> ] >> ]

\* typeof x === 'string' ? this.toADF(x) : x
StringToADF(x) == IF x.typeof = "string" THEN toADF(x) ELSE x

\* the description or comment an operation puts into its body; undefined when
\* the operation leaves it out
OpText(op, text) ==
  IF op \in {"addComment", "updateComment"} THEN StringToADF(text)
  ELSE IF op = "updateIssue"
    THEN IF text # Undefined THEN StringToADF(text) ELSE Undefined
  ELSE IF op \in {"createIssue", "addWorklog", "updateWorklog", "transitionIssue",
                  "createIssueLink"}
    THEN IF JsTruthy(text) THEN StringToADF(text) ELSE Undefined
  ELSE Undefined

\* the assignee an operation puts into its body: accountId for assignIssue,
\* fields.assignee for createIssue and updateIssue
OpAssignee(op, accountId) ==
  IF op = "assignIssue" THEN accountId
  ELSE IF op = "updateIssue"
    THEN IF accountId # Undefined
           THEN IF JsTruthy(accountId)
                  THEN [typeof |-> "object", accountId |-> accountId]
                  ELSE JsNull
           ELSE Undefined
  ELSE IF op = "createIssue"
    THEN IF JsTruthy(accountId)
           THEN [typeof |-> "object", accountId |-> accountId]
           ELSE Undefined
  ELSE Undefined

\* variant of ClientAccountId that passes the tool's account id on as it is
ClientAccountId_AsIs(cl) == cl.accountId

\* what the tool handler hands to the client as the account id:
\* jira_assign_issue passes accountId || null, jira_update_issue assigneeId as is
ClientAccountId(cl) ==
  IF cl.via = "tool" /\ cl.op = "assignIssue"
    THEN IF JsTruthy(cl.accountId) THEN cl.accountId ELSE JsNull
    ELSE cl.accountId

\* variant of UpdateFields that always sends labels
UpdateFields_AlwaysLabels(cl) ==
  IF cl.op # "updateIssue" THEN {}
  ELSE {"labels"}
       \cup (cl.supplied \cap {"summary", "priority", "components", "fixVersions"})
       \cup (IF "dueDate" \in cl.supplied THEN {"duedate"} ELSE {})
       \cup (IF cl.text # Undefined THEN {"description"} ELSE {})
       \cup (IF cl.accountId # Undefined THEN {"assignee"} ELSE {})
       \cup cl.custom

\* the keys of the fields object updateIssue sends: one for each parameter that
\* is not undefined, then the keys of customFields merged over them
UpdateFields(cl) ==
  IF cl.op # "updateIssue" THEN {}
  ELSE (cl.supplied \cap {"summary", "priority", "labels", "components", "fixVersions"})
       \cup (IF "dueDate" \in cl.supplied THEN {"duedate"} ELSE {})
       \cup (IF cl.text # Undefined THEN {"description"} ELSE {})
       \cup (IF cl.accountId # Undefined THEN {"assignee"} ELSE {})
       \cup cl.custom

\* variant of OpOutbound that sets Content-Type only on requests with a body
OpOutbound_ContentTypeWithBody(c, cl, headers) ==
  [ op |-> cl.op,
    url |-> BaseUrl(c, OpOf(cl.op)[3]),
    method |-> OpOf(cl.op)[2],
    Authorization |-> headers.Authorization,
    ContentType |-> IF OpOf(cl.op)[4] THEN headers.ContentType ELSE "",
    Accept |-> headers.Accept,
    hasBody |-> OpOf(cl.op)[4],
    text |-> OpText(cl.op, cl.text),
    assignee |-> OpAssignee(cl.op, ClientAccountId(cl)),
    fields |-> UpdateFields(cl) ]

\* the arguments request() hands to fetch for an operation
OpOutbound(c, cl, headers) ==
  [ op |-> cl.op,
    url |-> BaseUrl(c, OpOf(cl.op)[3]),
    method |-> OpOf(cl.op)[2],
    Authorization |-> headers.Authorization,
    ContentType |-> headers.ContentType,
    Accept |-> headers.Accept,
    hasBody |-> OpOf(cl.op)[4],
    text |-> OpText(cl.op, cl.text),
    assignee |-> OpAssignee(cl.op, ClientAccountId(cl)),
    fields |-> UpdateFields(cl) ]

\* variant of AfterResponse that repeats the request after a rate-limit failure
AfterResponse_Retry(requests, o) ==
  IF o.kind = "RateLimitError" THEN Append(requests, requests[1]) ELSE requests

\* request() calls fetch once: after the response it returns or throws
AfterResponse(requests, o) == requests

\* the handlers of jira_assign_issue and jira_update_issue after the client call
OpToolResponse(cl, o) ==
  IF cl.via # "tool" THEN NoToolResponse
  ELSE IF o.kind # "ok" THEN formatErrorResponse(o)
  ELSE IF cl.op = "assignIssue"
    THEN formatResponse(
           [ success |-> TRUE,
             message |-> IF JsTruthy(cl.accountId)
                           THEN "Issue K-1 assigned to " \o cl.accountId.s
                           ELSE "Issue K-1 unassigned" ], "json", "object")
  ELSE formatResponse([success |-> TRUE, message |-> "Issue K-1 updated"],
                      "json", "object")

\* ---- explored operations ----
Domain2 == << "z","e","n" >>

\* tenant headers a client is created from: an access token, email and API token,
\* or an email alone (which resolves to no Authorization header)
OpsHeaders ==
  { [domain |-> Some(d), email |-> a[1], apiToken |-> a[2], accessToken |-> a[3]] :
      d \in {Domain1, Domain2},
      a \in { <<None, None, Some(AccessToken1)>>,
              <<Some(Email1), Some(ApiToken1), None>>,
              <<Some(Email1), None, None>> } }

\* documents already in ADF form: one paragraph, and a heading with a paragraph
Documents ==
  { [ typeof |-> "object", type |-> "doc", version |-> 1,
      content |-> << [ type |-> "paragraph",
                       content |-> << [type |-> "text", text |-> "hi"] >> ] >> ],
    [ typeof |-> "object", type |-> "doc", version |-> 1,
      content |-> << [ type |-> "heading",
                       content |-> << [type |-> "text", text |-> "Plan"] >> ],
                     [ type |-> "paragraph",
                       content |-> << [type |-> "text", text |-> "a"],
                                      [type |-> "text", text |-> "b"] >> ] >> ] }

TextInputs(op) ==
  IF op \in {"addComment", "updateComment"}
    THEN {JsString(""), JsString("hi"), JsString("two\nlines")} \cup Documents
  ELSE IF op \in {"createIssue", "updateIssue", "addWorklog", "updateWorklog",
                  "transitionIssue", "createIssueLink"}
    THEN {Undefined, JsString(""), JsString("hi"), JsString("two\nlines")}
         \cup Documents
  ELSE {Undefined}

AccountInputs(op) ==
  IF op = "assignIssue" THEN {JsNull, JsString("acc1")}
  ELSE IF op \in {"createIssue", "updateIssue"}
    THEN {Undefined, JsString(""), JsString("acc1")}
  ELSE {Undefined}

\* calls of the client's methods, and calls of the tools jira_assign_issue and
\* jira_update_issue (whose schemas take strings)
OpCalls ==
  { cl \in [ op : {o[1] : o \in ClientOps}, via : {"client"},
             text : UNION {TextInputs(o[1]) : o \in ClientOps},
             accountId : UNION {AccountInputs(o[1]) : o \in ClientOps},
             supplied : { {}, {"summary"}, {"priority", "labels"},
                          {"components", "fixVersions", "dueDate"},
                          {"summary", "priority", "labels", "components",
                           "fixVersions", "dueDate"} },
             custom : { {}, {"customfield_10010"}, {"labels"} } ] :
      /\ cl.text \in TextInputs(cl.op)
      /\ cl.accountId \in AccountInputs(cl.op)
      /\ cl.op # "updateIssue" => (cl.supplied = {} /\ cl.custom = {}) }
  \cup [ op : {"assignIssue"}, via : {"tool"}, text : {Undefined},
         accountId : {JsString(""), JsString("acc1")}, supplied : {{}},
         custom : {{}} ]
  \cup [ op : {"updateIssue"}, via : {"tool"},
         text : {Undefined, JsString(""), JsString("hi")},
         accountId : {Undefined, JsString(""), JsString("acc1")},
         supplied : { {}, {"summary"}, {"priority", "labels", "dueDate"} },
         custom : {{}} ]

OpResponses ==
  { Response(204, None, NotJson), Response(200, None, JsonNull),
    Response(401, None, NotJson), Response(403, None, NotJson),
    Response(429, Some(<<"7">>), NotJson), Response(500, None, NotJson) }
  \cup { Response(404, None, b) : b \in FewErrorBodies }

NoOpCall ==
  [op |-> "none", via |-> "client", text |-> Undefined, accountId |-> Undefined,
   supplied |-> {}, custom |-> {}]

\* a client created from the tenant headers of a request
InitOps ==
  /\ pc = "op"
  /\ inbound \in { [path |-> "/mcp", method |-> "POST", headers |-> h,
                     rpc |-> "tools/call"] : h \in OpsHeaders }
  /\ creds = parseTenantCredentials(inbound.headers)
  /\ serverCreated = validateCredentials(creds).ok
  /\ call = NoOpCall
  /\ sent = <<>>
  /\ vresp = NoResponse
  /\ outcome = NoOutcome
  /\ toolResp = NoToolResponse
  /\ httpResp = NoHttpResponse

\* an operation is called: request() resolves the headers and calls fetch
invoke ==
  /\ pc = "op"
  /\ \E cl \in OpCalls :
       /\ call' = cl
       /\ IF getAuthHeaders(creds).threw
            THEN /\ outcome' = NoCredentialsOutcome
                 /\ toolResp' = OpToolResponse(cl, NoCredentialsOutcome)
                 /\ sent' = <<>>
                 /\ pc' = "opDone"
            ELSE /\ outcome' = NoOutcome
                 /\ toolResp' = NoToolResponse
                 /\ sent' = << OpOutbound(creds, cl, getAuthHeaders(creds)) >>
                 /\ pc' = "opAwaiting"
  /\ UNCHANGED << inbound, creds, serverCreated, vresp, httpResp >>

\* fetch resolves: request() returns or throws, and so does the operation
opRespond ==
  /\ pc = "opAwaiting"
  /\ \E r \in OpResponses :
       /\ vresp' = r
       /\ outcome' = RequestOutcome(r)
       /\ sent' = AfterResponse(sent, RequestOutcome(r))
       /\ toolResp' = OpToolResponse(call, RequestOutcome(r))
  /\ pc' = "opDone"
  /\ UNCHANGED << inbound, creds, serverCreated, call, httpResp >>

\* the invocation is over
opReturn ==
  /\ pc = "opDone"
  /\ pc' = "op"
  /\ call' = NoOpCall
  /\ sent' = <<>>
  /\ vresp' = NoResponse
  /\ outcome' = NoOutcome
  /\ toolResp' = NoToolResponse
  /\ UNCHANGED << inbound, creds, serverCreated, httpResp >>

NextOps == invoke \/ opRespond \/ opReturn

SpecOps == InitOps /\ [][NextOps]_vars

\* ------------------------------------------------------------------------
\* Concurrent /mcp requests: every variable holds one value per request in flight
\* ------------------------------------------------------------------------
Requests == 1..MaxRequests

\* variant of ClientFor with one client kept at module level and reused
ClientFor_Cached(i, clients) ==
  IF clients[1] # NoCredentials THEN clients[1] ELSE clients[i]

\* the client a request's tool handlers close over: the one created for it
ClientFor(i, clients) == clients[i]

InitConcurrent ==
  /\ pc = [i \in Requests |-> "none"]
  /\ inbound = [i \in Requests |-> NoInbound]
  /\ creds = [i \in Requests |-> NoCredentials]
  /\ serverCreated = [i \in Requests |-> FALSE]
  /\ call = [i \in Requests |-> NoCall]
  /\ sent = [i \in Requests |-> <<>>]
  /\ vresp = [i \in Requests |-> NoResponse]
  /\ outcome = [i \in Requests |-> NoOutcome]
  /\ toolResp = [i \in Requests |-> NoToolResponse]
  /\ httpResp = [i \in Requests |-> NoHttpResponse]

\* fetch for request i, a POST to /mcp of one of two tenants or of nobody, up to
\* the await after createStatelessServer
arrive(i) ==
  /\ pc[i] = "none"
  /\ \E h \in { [domain |-> Some(Domain1), email |-> None, apiToken |-> None,
                   accessToken |-> Some(AccessToken1)],
                  [domain |-> Some(Domain2), email |-> Some(Email1),
                   apiToken |-> Some(ApiToken1), accessToken |-> None],
                  NoHeaders } :
       LET c == parseTenantCredentials(h)
           v == validateCredentials(c)
       IN /\ inbound' = [inbound EXCEPT ![i] =
                           [path |-> "/mcp", method |-> "POST", headers |-> h,
                            rpc |-> "tools/call"]]
          /\ IF v.ok
               THEN /\ creds' = [creds EXCEPT ![i] = c]
                    /\ serverCreated' = [serverCreated EXCEPT ![i] = TRUE]
                    /\ httpResp' = httpResp
                    /\ pc' = [pc EXCEPT ![i] = "serving"]
               ELSE /\ creds' = creds
                    /\ serverCreated' = serverCreated
                    /\ httpResp' = [httpResp EXCEPT ![i] =
                         HttpResponse(401, "Unauthorized", v.message, RequiredHeaders)]
                    /\ pc' = [pc EXCEPT ![i] = "responded"]
  /\ UNCHANGED << call, sent, vresp, outcome, toolResp >>

\* the MCP handler of request i runs the tool, up to the client's fetch
callTool(i) ==
  /\ pc[i] = "serving"
  /\ \E cl \in { [tool |-> "jira_get_myself", startAt |-> 0, maxResults |-> 0,
                    format |-> "json"],
                   [tool |-> "jira_list_boards", startAt |-> 0, maxResults |-> 1,
                    format |-> "json"] } :
       LET c == ClientFor(i, creds)
       IN /\ call' = [call EXCEPT ![i] = cl]
          /\ sent' = [sent EXCEPT ![i] = << Outbound(c, cl, getAuthHeaders(c)) >>]
  /\ pc' = [pc EXCEPT ![i] = "awaiting"]
  /\ UNCHANGED << inbound, creds, serverCreated, vresp, outcome, toolResp, httpResp >>

\* the vendor answers request i's call; its handler finishes
respond(i) ==
  /\ pc[i] = "awaiting"
  /\ \E r \in { Response(401, None, NotJson), Response(429, None, NotJson) }
               \cup { Response(200, None, b) :
                        b \in { x \in SuccessBodies(call[i]) :
                                  x.kind = "envelope" => x.startAt = 0 /\ x.total = 1 } } :
       /\ vresp' = [vresp EXCEPT ![i] = r]
       /\ outcome' = [outcome EXCEPT ![i] = RequestOutcome(r)]
       /\ toolResp' = [toolResp EXCEPT ![i] = ToolResponse(call[i], RequestOutcome(r))]
  /\ httpResp' = [httpResp EXCEPT ![i] = HttpResponse(200, "mcp", "", <<>>)]
  /\ pc' = [pc EXCEPT ![i] = "responded"]
  /\ UNCHANGED << inbound, creds, serverCreated, call, sent >>

NextConcurrent == \E i \in Requests : arrive(i) \/ callTool(i) \/ respond(i)

SpecConcurrent == InitConcurrent /\ [][NextConcurrent]_vars

\* ------------------------------------------------------------------------
\* getStatusesForProject: the statuses of a project, each id once
\* ------------------------------------------------------------------------
\* variant of MapSet that keeps the value a key was first set to
MapSet_KeepFirst(m, status) ==
  IF \E i \in DOMAIN m : m[i].id = status.id
    THEN m
    ELSE Append(m, status)

\* Map.prototype.set on a map kept as the sequence of its values in insertion
\* order: a key already present keeps its place and takes the new value
MapSet(m, status) ==
  IF \E i \in DOMAIN m : m[i].id = status.id
    THEN [i \in DOMAIN m |-> IF m[i].id = status.id THEN status ELSE m[i]]
    ELSE Append(m, status)

\* the inner loop: for (const status of issueType.statuses) statusMap.set(...)
RECURSIVE SetStatuses(_, _)
SetStatuses(m, statuses) ==
  IF statuses = <<>> THEN m
  ELSE SetStatuses(MapSet(m, Head(statuses)), Tail(statuses))

\* the outer loop: for (const issueType of response)
RECURSIVE SetIssueTypes(_, _)
SetIssueTypes(m, response) ==
  IF response = <<>> THEN m
  ELSE SetIssueTypes(SetStatuses(m, Head(response).statuses), Tail(response))

\* Array.from(statusMap.values()) of the map filled from the response
getStatusesForProject(response) == SetIssueTypes(<<>>, response)

\* status records of the vendor: id "1" occurs under two names
JiraStatuses ==
  { [id |-> "1", name |-> "Open"], [id |-> "1", name |-> "To Do"],
    [id |-> "2", name |-> "Done"] }

\* vendor answers to GET /project/{key}/statuses: an array of issue types with
\* their statuses, or a failure status
StatusResponses ==
  { [status |-> 200, issueTypes |-> t] :
      t \in UNION { [1..n -> { [name |-> "Bug", statuses |-> ss] :
                                ss \in UNION { [1..k -> JiraStatuses] :
                                               k \in 0..MaxStatuses } }] :
                    n \in 0..MaxIssueTypes } }
  \cup { [status |-> 404, issueTypes |-> <<>>] }

InitStatuses ==
  /\ pc = "statuses"
  /\ inbound = NoInbound
  /\ creds = SchemaCredentials
  /\ serverCreated = TRUE
  /\ call = [tool |-> "none"]
  /\ sent = <<>>
  /\ vresp = [status |-> 0, issueTypes |-> <<>>]
  /\ outcome = [kind |-> "none", statuses |-> <<>>]
  /\ toolResp = [isError |-> FALSE, statuses |-> <<>>]
  /\ httpResp = NoHttpResponse

\* jira_get_project_statuses calls the client, which sends its one request
getProjectStatuses ==
  /\ pc = "statuses"
  /\ call' = [tool |-> "jira_get_project_statuses"]
  /\ sent' = << [method |-> "GET", path |-> "/project/{key}/statuses"] >>
  /\ pc' = "statusesAwaiting"
  /\ UNCHANGED << inbound, creds, serverCreated, vresp, outcome, toolResp, httpResp >>

\* the vendor answers: the client folds the statuses, the tool serialises them
statusesRespond ==
  /\ pc = "statusesAwaiting"
  /\ \E r \in StatusResponses :
       /\ vresp' = r
       /\ outcome' = IF r.status = 200
                        THEN [kind |-> "ok",
                              statuses |-> getStatusesForProject(r.issueTypes)]
                        ELSE [kind |-> "error", statuses |-> <<>>]
       /\ toolResp' = IF r.status = 200
                         THEN [isError |-> FALSE,
                               statuses |-> getStatusesForProject(r.issueTypes)]
                         ELSE [isError |-> TRUE, statuses |-> <<>>]
  /\ pc' = "statusesDone"
  /\ UNCHANGED << inbound, creds, serverCreated, call, sent, httpResp >>

\* the invocation is over
statusesReturn ==
  /\ pc = "statusesDone"
  /\ pc' = "statuses"
  /\ call' = [tool |-> "none"]
  /\ sent' = <<>>
  /\ vresp' = [status |-> 0, issueTypes |-> <<>>]
  /\ outcome' = [kind |-> "none", statuses |-> <<>>]
  /\ toolResp' = [isError |-> FALSE, statuses |-> <<>>]
  /\ UNCHANGED << inbound, creds, serverCreated, httpResp >>

NextStatuses == getProjectStatuses \/ statusesRespond \/ statusesReturn

SpecStatuses == InitStatuses /\ [][NextStatuses]_vars

\* ------------------------------------------------------------------------
\* Following the "More available" hint of the Markdown rendering page by page
\* ------------------------------------------------------------------------
\* formatPaginatedAsMarkdown: the startAt named by the "More available" line
MoreAvailableHint(data) ==
  IF data.hasMore
    THEN [present |-> TRUE, v |-> data.startAt + data.maxResults]
    ELSE [present |-> FALSE, v |-> 0]

\* the pages the vendor may answer a request with, out of a list of total items:
\* the requested startAt, its own page size, and at least one item but possibly
\* fewer than the page size while items remain
VendorPages(cl, total) ==
  { r \in [ kind : {"envelope"}, startAt : {cl.startAt},
            maxResults : {cl.maxResults, 1}, total : {total},
            items : {Items(cl.startAt, n) : n \in 0..MaxItems} ] :
      /\ Len(r.items) <= r.maxResults
      /\ cl.startAt + Len(r.items) <= total
      /\ cl.startAt < total => Len(r.items) >= 1 }

\* a caller about to list from the start; vresp.total is the length of the
\* vendor's list, outcome the items seen so far
InitWalk ==
  /\ pc = "walk"
  /\ inbound = NoInbound
  /\ creds = SchemaCredentials
  /\ serverCreated = TRUE
  /\ call \in [ tool : PaginatedTools \cup IssueListTools, startAt : {0},
                 maxResults : 1..MaxItems, format : {"markdown"} ]
  /\ sent = <<>>
  /\ vresp \in [ kind : {"envelope"}, startAt : {0}, maxResults : {0},
                  total : 0..MaxTotal, items : {<<>>} ]
  /\ outcome = <<>>
  /\ toolResp = [isError |-> FALSE, data |-> Envelope(vresp), hint |-> [present |-> FALSE, v |-> 0]]
  /\ httpResp = NoHttpResponse

\* the tool is called: one request with the caller's startAt and maxResults
walkRequest ==
  /\ pc = "walk"
  /\ sent' = << Outbound(creds, call, getAuthHeaders(creds)) >>
  /\ pc' = "walkAwaiting"
  /\ UNCHANGED << inbound, creds, serverCreated, call, vresp, outcome, toolResp,
                  httpResp >>

\* the vendor answers with a page; the tool renders the envelope as Markdown
walkRespond ==
  /\ pc = "walkAwaiting"
  /\ \E r \in VendorPages(call, vresp.total) :
       /\ vresp' = r
       /\ toolResp' = [isError |-> FALSE, data |-> Envelope(r),
                       hint |-> MoreAvailableHint(Envelope(r))]
       /\ outcome' = outcome \o r.items
  /\ pc' = "walkDone"
  /\ UNCHANGED << inbound, creds, serverCreated, call, sent, httpResp >>

\* the caller asks for the next page at the hinted startAt
walkFollow ==
  /\ pc = "walkDone"
  /\ toolResp.hint.present
  /\ toolResp.hint.v <= MaxTotal + MaxItems
  /\ call' = [call EXCEPT !.startAt = toolResp.hint.v]
  /\ sent' = <<>>
  /\ pc' = "walk"
  /\ UNCHANGED << inbound, creds, serverCreated, vresp, outcome, toolResp, httpResp >>

NextWalk == walkRequest \/ walkRespond \/ walkFollow

SpecWalk == InitWalk /\ [][NextWalk]_vars

\* ------------------------------------------------------------------------
\* Properties
\* ------------------------------------------------------------------------
\* a tool call has been answered with a pagination envelope
EnvelopeReturned ==
  pc = "responded" /\ call.tool \in ListTools /\ toolResp.shape = "envelope"

EnvelopeKeys == {"items", "count", "total", "startAt", "maxResults", "hasMore"}

\* C1 as stated: for every list tool, the user searches included, the returned
\* hasMore is true iff the envelope has a total and startAt + count < total.
C1_Original ==
  EnvelopeReturned =>
    (toolResp.data.hasMore <=>
       /\ "total" \in DOMAIN toolResp.data
       /\ toolResp.data.startAt + toolResp.data.count < toolResp.data.total)

\* C1 amended: where the vendor response carries a total (the paginated client
\* methods and the issue-list tools) hasMore is true iff the vendor's startAt plus
\* the number of returned items is below the vendor's total; for jira_search_users
\* and jira_find_assignable_users, whose vendor response is a bare array, hasMore
\* is true iff the number of returned users equals the requested maxResults.
C1_HasMore ==
  EnvelopeReturned =>
    IF call.tool \in UserListTools
      THEN toolResp.data.hasMore <=> (Len(vresp.body.items) = call.maxResults)
      ELSE toolResp.data.hasMore <=>
             (vresp.body.startAt + Len(vresp.body.items) < vresp.body.total)

C1_Witness ==
  /\ EnvelopeReturned
  /\ call.tool = "jira_get_changelog"
  /\ vresp.body.startAt = 1
  /\ Len(vresp.body.items) = 1
  /\ vresp.body.total = 3
  /\ vresp.body.maxResults = 1
  /\ toolResp.data.hasMore

SearchReturned ==
  pc = "responded" /\ call.tool = "jira_search_issues" /\ toolResp.shape = "envelope"

\* C10 as stated: jira_search_issues called with maxResults m and answered with
\* startAt s, total t and n issues returns count n, total t, startAt s, maxResults m
\* and hasMore s + n < t.
C10_Original ==
  SearchReturned =>
    /\ toolResp.data.count = Len(vresp.body.items)
    /\ toolResp.data.total = vresp.body.total
    /\ toolResp.data.startAt = vresp.body.startAt
    /\ toolResp.data.maxResults = call.maxResults
    /\ toolResp.data.hasMore <=>
         (vresp.body.startAt + Len(vresp.body.items) < vresp.body.total)

\* C10 amended: the returned maxResults is the one of the vendor response (m is
\* what the request carries); with m = 50 and the vendor response {startAt 0,
\* maxResults 50, total 120, 50 issues} the result is count 50, total 120,
\* startAt 0, maxResults 50, hasMore true.
C10_SearchIssues ==
  SearchReturned =>
    /\ Len(sent) = 1
    /\ sent[1].maxResults = [set |-> TRUE, n |-> call.maxResults]
    /\ toolResp.data.count = Len(vresp.body.items)
    /\ toolResp.data.total = vresp.body.total
    /\ toolResp.data.startAt = vresp.body.startAt
    /\ toolResp.data.maxResults = vresp.body.maxResults
    /\ toolResp.data.hasMore <=>
         (vresp.body.startAt + Len(vresp.body.items) < vresp.body.total)
    /\ (vresp.body = ExampleSearchResult =>
          /\ toolResp.data.count = 50
          /\ toolResp.data.total = 120
          /\ toolResp.data.startAt = 0
          /\ toolResp.data.maxResults = 50
          /\ toolResp.data.hasMore)

C10_Witness ==
  /\ SearchReturned
  /\ call.maxResults = 50
  /\ vresp.body = ExampleSearchResult
  /\ toolResp.data.count = 50
  /\ toolResp.data.hasMore

\* a POST to /mcp has been answered
McpPosted == pc = "responded" /\ inbound.path = "/mcp" /\ inbound.method = "POST"

\* the inbound headers lack the domain, or lack both ways of authenticating
LacksCredentials(h) ==
  \/ ~Truthy(h.domain)
  \/ (~(Truthy(h.email) /\ Truthy(h.apiToken)) /\ ~Truthy(h.accessToken))

\* C3: a POST to /mcp without the four tenant headers, or with the domain header
\* absent or empty, or with neither email and API token nor an access token, is
\* answered 401 with a body naming the required headers; no MCP server is created,
\* no tool runs and no vendor call is made.
C3_Unauthorized ==
  (McpPosted /\ LacksCredentials(inbound.headers)) =>
    /\ httpResp.status = 401
    /\ httpResp.kind = "Unauthorized"
    /\ httpResp.required_headers = RequiredHeaders
    /\ ~serverCreated
    /\ call = NoCall
    /\ toolResp = NoToolResponse
    /\ sent = <<>>

C3_Witness ==
  /\ McpPosted
  /\ inbound.headers = NoHeaders
  /\ httpResp.status = 401
  /\ httpResp.required_headers = RequiredHeaders
  /\ ~serverCreated

\* ---- credential resolution (checked on the client alone) ----
\* the code units of a string
Codes(str) == [i \in 1..Len(str) |-> CharCode(str[i])]

\* the 6-bit value of a base64 character
B64Value(ch) == (CHOOSE i \in 1..64 : B64Alphabet[i] = ch) - 1

\* base64 decoding, four characters at a time
RECURSIVE B64Decode(_)
B64Decode(t) ==
  IF Len(t) < 4 THEN <<>>
  ELSE
    LET v0 == B64Value(t[1])
        v1 == B64Value(t[2])
        b0 == v0 * 4 + (v1 \div 16)
    IN IF t[3] = "=" THEN << b0 >>
       ELSE LET v2 == B64Value(t[3])
                b1 == (v1 % 16) * 16 + (v2 \div 4)
            IN IF t[4] = "=" THEN << b0, b1 >>
               ELSE << b0, b1, (v2 % 4) * 64 + B64Value(t[4]) >>
                      \o B64Decode(SubSeq(t, 5, Len(t)))

HasOAuth(c) == Truthy(c.accessToken)
HasBasic(c) == Truthy(c.email) /\ Truthy(c.apiToken)

\* C2: with an OAuth access token the Authorization header is "Bearer <token>",
\* also when email and API token are given too; with only email and API token it
\* is "Basic " followed by the base64 of email:apiToken; with neither (email
\* without token and token without email included) the request fails with an
\* authentication error and no outbound request is issued.
C2_AuthHeader ==
  pc \in {"clientAwaiting", "clientDone"} =>
    IF HasOAuth(creds)
      THEN /\ Len(sent) = 1
           /\ sent[1].Authorization = BearerPrefix \o creds.accessToken.v
    ELSE IF HasBasic(creds)
      THEN /\ Len(sent) = 1
           /\ SubSeq(sent[1].Authorization, 1, 6) = BasicPrefix
           /\ Len(sent[1].Authorization) % 4 = 2
           /\ B64Decode(SubSeq(sent[1].Authorization, 7, Len(sent[1].Authorization)))
                = Codes(creds.email.v \o <<":">> \o creds.apiToken.v)
    ELSE /\ pc = "clientDone"
         /\ outcome.kind = "AuthenticationError"
         /\ outcome.message = NoCredentialsMessage
         /\ sent = <<>>
         /\ vresp = NoResponse

\* email a@b and API token z, no access token: Basic YUBiOno=
C2_Witness ==
  /\ pc = "clientAwaiting"
  /\ creds.email = Some(Email1)
  /\ creds.apiToken = Some(ApiToken2)
  /\ ~HasOAuth(creds)
  /\ sent[1].Authorization =
       << "B","a","s","i","c"," ","Y","U","B","i","O","n","o","=" >>

\* ---- request(): status classification ----
Answered == pc = "responded" /\ vresp.status # 0

AllDigits(str) == Len(str) > 0 /\ \A i \in 1..Len(str) : IsDigit(str[i])

\* C4 as stated: a 429 raises a rate-limit failure whose retry-after hint is a
\* number: the numeric value of the Retry-After header when the header is present,
\* the default 60 when it is absent.
C4_RetryAfter ==
  (Answered /\ vresp.status = 429) =>
    /\ outcome.kind = "RateLimitError"
    /\ ~outcome.retryAfter.nan
    /\ (vresp.retryAfter.present /\ AllDigits(vresp.retryAfter.v)) =>
          outcome.retryAfter.n = DigitPrefix(vresp.retryAfter.v, 0)
    /\ ~vresp.retryAfter.present => outcome.retryAfter.n = 60

\* C5: status 401 yields an authentication failure and status 403 a permission
\* failure, an API error carrying status code 403, whatever the body; the body is
\* not read.
C5_AuthFailures ==
  /\ (Answered /\ vresp.status = 401) =>
       /\ outcome.kind = "AuthenticationError"
       /\ outcome.message = "Authentication failed. Check your credentials."
       /\ outcome.bodyReads = 0
  /\ (Answered /\ vresp.status = 403) =>
       /\ outcome.kind = "JiraApiError"
       /\ outcome.statusCode = 403
       /\ outcome.message = "Permission denied. Check your access rights."
       /\ outcome.bodyReads = 0

C5_Witness ==
  /\ Answered
  /\ vresp.status = 403
  /\ vresp.body.kind = "object"
  /\ vresp.body.message.present
  /\ outcome.kind = "JiraApiError"
  /\ outcome.statusCode = 403

IsGenericStatus(st) == ~IsOk(st) /\ st \notin {429, 401, 403}

\* C6: any other non-2xx status raises a generic API error carrying the status
\* code, its message being the errorMessages joined when that array is non-empty,
\* else the entries of the errors map when the body has one, else the message
\* field when it has a non-empty one, else (also when the body is no JSON object)
\* "Jira API error: <status>".
C6_GenericError ==
  (Answered /\ IsGenericStatus(vresp.status)) =>
    LET b == vresp.body
        obj == b.kind = "object"
        hasMessages == obj /\ b.errorMessages.present /\ b.errorMessages.v # <<>>
        hasErrors == obj /\ b.errors.present
        hasMessage == obj /\ b.message.present /\ b.message.v # ""
    IN /\ outcome.kind = "JiraApiError"
       /\ outcome.statusCode = vresp.status
       /\ hasMessages => outcome.message = Join(b.errorMessages.v, "; ")
       /\ b.kind = "object" /\ hasMessages /\ Len(b.errorMessages.v) = 2 =>
            outcome.message = "m1; m2"
       /\ (~hasMessages /\ hasErrors /\ Len(b.errors.v) = 1) =>
            outcome.message = "summary: is required"
       /\ (~hasMessages /\ hasErrors /\ Len(b.errors.v) = 2) =>
            outcome.message = "f1: e1; f2: e2"
       /\ (~hasMessages /\ ~hasErrors /\ hasMessage) => outcome.message = b.message.v
       /\ (~hasMessages /\ ~hasErrors /\ ~hasMessage) =>
            outcome.message = (IF vresp.status = 404 THEN "Jira API error: 404"
                               ELSE IF vresp.status = 400 THEN "Jira API error: 400"
                               ELSE "Jira API error: 500")

\* errorMessages wins over an errors map and a message field of the same body
C6_Witness ==
  /\ Answered
  /\ vresp.status = 404
  /\ vresp.body.kind = "object"
  /\ vresp.body.errorMessages = Some(<<"m1", "m2">>)
  /\ vresp.body.errors.present /\ Len(vresp.body.errors.v) = 2
  /\ vresp.body.message.present /\ vresp.body.message.v = "Not Found"
  /\ outcome.kind = "JiraApiError"
  /\ outcome.statusCode = 404
  /\ outcome.message = "m1; m2"

C8_FailureFlagged ==
  (pc = "responded" /\ inbound.rpc = "tools/call"
     /\ outcome.kind \in {"AuthenticationError", "RateLimitError", "JiraApiError"}) =>
    /\ toolResp.isError
    /\ toolResp.text # ""

\* ---- the fixed endpoints ----
\* C20: /health answers every request with 200 and status ok, and /sse answers
\* every request with the same fixed 501 response, whatever the method, the tenant
\* headers or the credentials; neither creates a server or calls the vendor.
C20_FixedEndpoints ==
  /\ (pc = "responded" /\ inbound.path = "/health") =>
       /\ httpResp = HttpResponse(200, "health", "ok", <<>>)
       /\ ~serverCreated
       /\ sent = <<>>
  /\ (pc = "responded" /\ inbound.path = "/sse") =>
       /\ httpResp = HttpResponse(501, "sse", SseMessage, <<>>)
       /\ ~serverCreated
       /\ sent = <<>>

\* a POST to /sse with full credentials and a DELETE to /health without any
C20_Witness ==
  /\ pc = "responded"
  /\ \/ /\ inbound.path = "/sse"
        /\ inbound.method = "POST"
        /\ inbound.headers.domain = Some(Domain1)
        /\ inbound.headers.accessToken = Some(AccessToken1)
        /\ httpResp.status = 501
     \/ /\ inbound.path = "/health"
        /\ inbound.method = "DELETE"
        /\ inbound.headers = NoHeaders
        /\ httpResp.status = 200

\* ---- configuration knobs ----
\* the integer a string of the explored environment values starts with, if any
LeadingInteger(chars) ==
  IF chars = <<"0">> THEN Num(0)
  ELSE IF chars = <<"2","5">> THEN Num(25)
  ELSE IF chars = <<"1","2","p","x">> THEN Num(12)
  ELSE IF chars = <<" ","7">> THEN Num(7)
  ELSE IF chars = <<"-","3">> THEN Num(0 - 3)
  ELSE NaN

Fallback(key) ==
  IF key = "CHARACTER_LIMIT" THEN 50000
  ELSE IF key = "DEFAULT_PAGE_SIZE" THEN 20
  ELSE 100

\* C19: a knob reads as the base-10 integer its environment value starts with
\* when that value is a string that parses to a number, and otherwise (unset, no
\* string, or a string that does not parse) as its fallback: 50000 for the
\* character limit, 20 for the default page size, 100 for the maximum page size.
C19_EnvNumber ==
  pc = "envRead" =>
    LET value == call[outcome.key]
    IN IF value.typeof = "string" /\ ~LeadingInteger(value.v).nan
         THEN outcome.n = LeadingInteger(value.v).n
         ELSE outcome.n = Fallback(outcome.key)

\* DEFAULT_PAGE_SIZE set to a string that is no number reads as 20 while
\* MAX_PAGE_SIZE is set to 25
C19_Witness ==
  /\ pc = "envRead"
  /\ outcome.key = "DEFAULT_PAGE_SIZE"
  /\ call.DEFAULT_PAGE_SIZE = EnvString(<<"a","b","c">>)
  /\ call.MAX_PAGE_SIZE = EnvString(<<"2","5">>)
  /\ outcome.n = 20

\* ---- page sizes ----
\* C17 as stated: every list tool accepts maxResults only as an integer in
\* 1..100 (or absent), and no vendor request carries a maxResults above 100.
C17_MaxPageSize ==
  pc = "schemaAccepted" =>
    /\ \/ vresp.maxResults = Undefined
       \/ /\ vresp.maxResults.typeof = "number"
          /\ vresp.maxResults.integer
          /\ vresp.maxResults.n \in 1..100
    /\ \A i \in 1..Len(sent) : sent[i].maxResults.set => sent[i].maxResults.n <= 100

\* C18 as stated: when the caller omits maxResults, the list tool requests the
\* default page size, 20 with DEFAULT_PAGE_SIZE unset, from the vendor.
C18_DefaultPageSize ==
  (pc = "schemaAccepted" /\ vresp.maxResults = Undefined) =>
    /\ Len(sent) = 1
    /\ sent[1].maxResults =
         [set |-> TRUE,
          n |-> getDefaultPageSize([CHARACTER_LIMIT |-> Undefined,
                                    DEFAULT_PAGE_SIZE |-> Undefined,
                                    MAX_PAGE_SIZE |-> Undefined])]

\* ---- the client's operations ----
OperationSent == pc \in {"opAwaiting", "opDone"} /\ Len(sent) > 0

TextOps ==
  { "createIssue", "updateIssue", "addComment", "updateComment", "addWorklog",
    "updateWorklog", "transitionIssue", "createIssueLink" }

\* a document of exactly one paragraph holding one text node with the string str
IsSingleParagraph(doc, str) ==
  /\ doc.typeof = "object"
  /\ doc.type = "doc"
  /\ doc.version = 1
  /\ Len(doc.content) = 1
  /\ doc.content[1].type = "paragraph"
  /\ Len(doc.content[1].content) = 1
  /\ doc.content[1].content[1] = [type |-> "text", text |-> str]

\* C11 as stated: every plain string given as description or comment to one of
\* the eight operations is sent as a document of one paragraph with one text node.
C11_Original ==
  (OperationSent /\ call.op \in TextOps /\ call.text.typeof = "string") =>
    /\ sent[1].text # Undefined
    /\ IsSingleParagraph(sent[1].text, call.text.s)

\* C11 amended: every non-empty plain string is sent as a document {type doc,
\* version 1} of exactly one paragraph holding one text node with that string; the
\* empty string is sent that way by updateIssue, addComment and updateComment and
\* left out of the body by createIssue, addWorklog, updateWorklog, transitionIssue
\* and createIssueLink; an input already in document form is sent unchanged; and
\* wrapping is idempotent: toADF(toADF(x)) = toADF(x).
C11_ToADF ==
  (OperationSent /\ call.op \in TextOps /\ call.text # Undefined) =>
    /\ (call.text.typeof = "string" /\ call.text.s # "") =>
         IsSingleParagraph(sent[1].text, call.text.s)
    /\ (call.text = JsString("")
          /\ call.op \in {"updateIssue", "addComment", "updateComment"}) =>
         IsSingleParagraph(sent[1].text, "")
    /\ (call.text = JsString("")
          /\ call.op \notin {"updateIssue", "addComment", "updateComment"}) =>
         sent[1].text = Undefined
    /\ call.text.typeof = "object" => sent[1].text = call.text
    /\ toADF(toADF(call.text)) = toADF(call.text)
    /\ IsSingleParagraph(toADF(toADF(JsString("hi"))), "hi")

C11_Witness ==
  /\ OperationSent
  /\ call.op = "addWorklog"
  /\ call.text = JsString("two\nlines")
  /\ sent[1].method = "POST"
  /\ IsSingleParagraph(sent[1].text, "two\nlines")

IsFailure(o) == o.kind \notin {"none", "ok"}

\* C13: an invocation issues at most two outbound requests (in fact one), a
\* request is issued only when the invocation starts, never after a response, and
\* an invocation whose request failed, or whose credentials did not resolve, has
\* returned with no request issued after the failure.
C13_NoRetry ==
  /\ [](Len(sent) <= 2)
  /\ [](IsFailure(outcome) =>
          /\ pc = "opDone"
          /\ Len(sent) = (IF vresp = NoResponse THEN 0 ELSE 1))
  /\ [][Len(sent') > Len(sent) => (pc = "op" /\ outcome = NoOutcome)]_vars

\* getAttachments (through getIssue) rate-limited: one request, then the failure
C13_Witness ==
  /\ pc = "opDone"
  /\ call.op = "getAttachments"
  /\ outcome.kind = "RateLimitError"
  /\ Len(sent) = 1

\* C14: every outbound request of every operation, body or no body, carries the
\* resolved Authorization header (Bearer with the access token, else Basic with
\* the base64 of email:apiToken), Content-Type application/json and Accept
\* application/json.
C14_Headers ==
  \A i \in 1..Len(sent) :
    (pc \in {"opAwaiting", "opDone"}) =>
      /\ sent[i].ContentType = "application/json"
      /\ sent[i].Accept = "application/json"
      /\ IF HasOAuth(creds)
           THEN sent[i].Authorization = BearerPrefix \o creds.accessToken.v
           ELSE /\ HasBasic(creds)
                /\ SubSeq(sent[i].Authorization, 1, 6) = BasicPrefix
                /\ B64Decode(SubSeq(sent[i].Authorization, 7,
                                    Len(sent[i].Authorization)))
                     = Codes(creds.email.v \o <<":">> \o creds.apiToken.v)

\* a DELETE without a body, authenticated with email and API token
C14_Witness ==
  /\ OperationSent
  /\ call.op = "deleteComment"
  /\ sent[1].method = "DELETE"
  /\ ~sent[1].hasBody
  /\ HasBasic(creds) /\ ~HasOAuth(creds)
  /\ sent[1].ContentType = "application/json"

\* the operations on boards, backlogs, sprints and epics
BoardSprintEpicOps ==
  { "getBoards", "getBoard", "getBoardIssues", "getBacklogIssues",
    "getSprints", "getSprint", "getSprintIssues", "createSprint", "updateSprint",
    "deleteSprint", "startSprint", "completeSprint", "moveIssuesToSprint",
    "moveIssuesToBacklog", "getEpics", "getEpic", "getEpicIssues",
    "moveIssuesToEpic", "removeIssuesFromEpic" }

\* C15: every outbound URL is https://<domain>.atlassian.net followed by the
\* agile base /rest/agile/1.0 for the board, backlog, sprint and epic operations
\* and by the core base /rest/api/3 for every other operation, <domain> being the
\* X-Jira-Domain header of the request the client was created for.
C15_UrlBase ==
  \A i \in 1..Len(sent) :
    (pc \in {"opAwaiting", "opDone"}) =>
      /\ sent[i].url.scheme = "https"
      /\ sent[i].url.host = inbound.headers.domain.v
      /\ sent[i].url.suffix = ".atlassian.net"
      /\ sent[i].url.path = (IF sent[i].op \in BoardSprintEpicOps
                               THEN "/rest/agile/1.0" ELSE "/rest/api/3")

C15_Witness ==
  /\ OperationSent
  /\ call.op = "moveIssuesToBacklog"
  /\ inbound.headers.domain = Some(Domain2)
  /\ sent[1].url.host = Domain2
  /\ sent[1].url.path = "/rest/agile/1.0"

ToolCalled(op) == OperationSent /\ call.via = "tool" /\ call.op = op

\* C16: jira_assign_issue with accountId '' sends accountId null and, when the
\* vendor accepts, reports the issue unassigned; with a non-empty id it sends that
\* id and reports the assignment; jira_update_issue with assigneeId '' sends
\* assignee null and with a non-empty id sends assignee {accountId: id}.
C16_Unassign ==
  /\ (ToolCalled("assignIssue") /\ call.accountId = JsString("")) =>
       /\ sent[1].assignee = JsNull
       /\ (pc = "opDone" /\ outcome.kind = "ok") =>
            (~toolResp.isError /\ toolResp.data.message = "Issue K-1 unassigned")
  /\ (ToolCalled("assignIssue") /\ call.accountId = JsString("acc1")) =>
       /\ sent[1].assignee = JsString("acc1")
       /\ (pc = "opDone" /\ outcome.kind = "ok") =>
            (~toolResp.isError
               /\ toolResp.data.message = "Issue K-1 assigned to acc1")
  /\ (ToolCalled("updateIssue") /\ call.accountId = JsString("")) =>
       sent[1].assignee = JsNull
  /\ (ToolCalled("updateIssue") /\ call.accountId = JsString("acc1")) =>
       sent[1].assignee = [typeof |-> "object", accountId |-> JsString("acc1")]

C16_Witness ==
  /\ ToolCalled("assignIssue")
  /\ call.accountId = JsString("")
  /\ pc = "opDone"
  /\ vresp.status = 204
  /\ sent[1].assignee = JsNull
  /\ toolResp.data.message = "Issue K-1 unassigned"

\* ---- concurrent requests ----
\* the Authorization value that follows from a request's own tenant headers
OwnAuthorization(h, auth) ==
  IF Truthy(h.accessToken)
    THEN auth = BearerPrefix \o h.accessToken.v
    ELSE /\ SubSeq(auth, 1, 6) = BasicPrefix
         /\ B64Decode(SubSeq(auth, 7, Len(auth)))
              = Codes(h.email.v \o <<":">> \o h.apiToken.v)

\* C12: under every interleaving of concurrent /mcp requests, each outbound
\* vendor call carries the domain and the Authorization that follow from the
\* headers of the request that triggered it, and each request's outcome and
\* response are determined by its own headers, its own tool call and the vendor's
\* answer to its own call, whatever the other requests are and however far they are.
C12_Independent ==
  \A i \in Requests :
    /\ \A k \in 1..Len(sent[i]) :
         /\ sent[i][k].url.host = inbound[i].headers.domain.v
         /\ OwnAuthorization(inbound[i].headers, sent[i][k].Authorization)
    /\ creds[i] \in {NoCredentials, parseTenantCredentials(inbound[i].headers)}
    /\ (pc[i] = "responded" /\ serverCreated[i]) =>
         /\ outcome[i] = RequestOutcome(vresp[i])
         /\ toolResp[i] = ToolResponse(call[i], RequestOutcome(vresp[i]))
         /\ httpResp[i].status = 200
    /\ (pc[i] = "responded" /\ ~serverCreated[i]) =>
         /\ httpResp[i].status = 401
         /\ sent[i] = <<>>

\* two tenants in flight at once, the second one's call answered first
C12_Witness ==
  /\ inbound[1].headers.domain = Some(Domain1)
  /\ inbound[2].headers.domain = Some(Domain2)
  /\ pc[1] = "awaiting"
  /\ pc[2] = "responded"
  /\ sent[1][1].url.host = Domain1
  /\ sent[2][1].url.host = Domain2
  /\ sent[1][1].Authorization # sent[2][1].Authorization
  /\ toolResp[2].isError

\* ---- request(): one outcome per response ----
\* C22 as stated: the outcome is decided by the status with fixed precedence (429
\* rate limit, 401 authentication, 403 permission, any other status outside
\* 200..299 a generic API error, 204 undefined, any other 2xx the parsed JSON
\* body); it is an error if and only if the status is outside 200..299; and the
\* body is read at most once.
C22_OutcomeByStatus ==
  Answered =>
    /\ outcome.kind =
         (IF vresp.status = 429 THEN "RateLimitError"
          ELSE IF vresp.status = 401 THEN "AuthenticationError"
          ELSE IF ~IsOk(vresp.status) THEN "JiraApiError"
          ELSE "ok")
    /\ (vresp.status = 403 => outcome.statusCode = 403)
    /\ (IsGenericStatus(vresp.status) => outcome.statusCode = vresp.status)
    /\ (vresp.status = 204 => outcome.value = UndefinedValue)
    /\ ((IsOk(vresp.status) /\ vresp.status # 204) => outcome.value = vresp.body)
    /\ (IsFailure(outcome) <=> ~IsOk(vresp.status))
    /\ outcome.bodyReads <= 1

\* C23 as stated: the message of a generic API error is never the empty string;
\* when the error body supplies no message text (errorMessages absent or empty,
\* errors absent or an empty map, message absent or empty) it is the default
\* "Jira API error: <status>".
C23_MessageNotEmpty ==
  (Answered /\ IsGenericStatus(vresp.status)) =>
    /\ outcome.message # ""
    /\ (/\ vresp.body.kind = "object"
        /\ ~(vresp.body.errorMessages.present /\ vresp.body.errorMessages.v # <<>>)
        /\ ~(vresp.body.errors.present /\ vresp.body.errors.v # <<>>)
        /\ ~(vresp.body.message.present /\ vresp.body.message.v # "")) =>
         outcome.message = DefaultErrorMessage(vresp.status)

\* ---- validation and resolution of credentials ----
\* C25: for every credential set with a non-empty domain, validateCredentials
\* passes if and only if getAuthHeaders returns a header, that is, if and only if
\* a call of the client reaches the vendor; credentials that pass validation never
\* produce the "No credentials provided" authentication error.
C25_ValidationAgrees ==
  /\ creds.domain # <<>> =>
       (validateCredentials(creds).ok <=> ~getAuthHeaders(creds).threw)
  /\ pc \in {"clientAwaiting", "clientDone"} =>
       /\ validateCredentials(creds).ok <=> Len(sent) = 1
       /\ validateCredentials(creds).ok => outcome.message # NoCredentialsMessage
       /\ ~validateCredentials(creds).ok =>
            (outcome.kind = "AuthenticationError"
               /\ outcome.message = NoCredentialsMessage)

\* email and API token with an empty access token: valid, and sent with Basic
C25_Witness ==
  /\ pc = "clientDone"
  /\ creds.email = Some(Email1)
  /\ creds.apiToken = Some(ApiToken1)
  /\ creds.accessToken = Some(<<>>)
  /\ validateCredentials(creds).ok
  /\ Len(sent) = 1
  /\ SubSeq(sent[1].Authorization, 1, 6) = BasicPrefix
  /\ outcome.kind = "ok"

\* ---- testConnection ----
\* C26: testConnection never raises: the tool answers with its result, which is
\* connected = true exactly when the getMyself call returned the user, and
\* otherwise connected = false with the message of the failure (of the request,
\* or of reading the user when a success carried none); exactly one outbound
\* request is made.
C26_TestConnection ==
  (pc = "responded" /\ call.tool = "jira_test_connection") =>
    /\ Len(sent) = 1
    /\ sent[1].method = "GET"
    /\ ~toolResp.isError
    /\ toolResp.shape = "connection"
    /\ toolResp.data.connected <=> (outcome.kind = "ok" /\ outcome.value = Myself)
    /\ toolResp.data.connected => toolResp.data.message = "Connected as Ann"
    /\ IsFailure(outcome) =>
         (~toolResp.data.connected /\ toolResp.data.message = outcome.message)

C26_Witness ==
  /\ pc = "responded"
  /\ call.tool = "jira_test_connection"
  /\ vresp.status = 403
  /\ Len(sent) = 1
  /\ toolResp.data = [connected |-> FALSE,
                       message |-> "Permission denied. Check your access rights."]

\* ---- pagination pass-through ----
\* C21: for every paginated list tool the maxResults the tool received is the
\* limit sent to the vendor and the startAt it received is the offset sent,
\* unmodified, a startAt of 0 being left out (or sent as 0); exactly one vendor
\* request is made per invocation, also when the vendor reports more pages.
C21_PassThrough ==
  (pc \in {"awaiting", "responded"} /\ call.tool \in PagedTools) =>
    /\ Len(sent) = 1
    /\ sent[1].maxResults = [set |-> TRUE, n |-> call.maxResults]
    /\ call.startAt # 0 => sent[1].startAt = [set |-> TRUE, n |-> call.startAt]
    /\ call.startAt = 0 => sent[1].startAt.n = 0

\* jira_get_comments from offset 1 with limit 50, answered with more to come
C21_Witness ==
  /\ pc = "responded"
  /\ call.tool = "jira_get_comments"
  /\ call.startAt = 1
  /\ call.maxResults = 50
  /\ sent[1].startAt = [set |-> TRUE, n |-> 1]
  /\ sent[1].maxResults = [set |-> TRUE, n |-> 50]
  /\ toolResp.shape = "envelope"
  /\ toolResp.data.hasMore
  /\ Len(sent) = 1

\* ---- updateIssue ----
\* C27 as stated: the PUT body of updateIssue contains a field exactly when the
\* corresponding parameter was supplied (summary, description, priority,
\* assignee, labels, components, fixVersions, duedate).
C27_OnlySupplied ==
  (OperationSent /\ call.op = "updateIssue") =>
    /\ \A f \in {"summary", "priority", "labels", "components", "fixVersions"} :
         f \in sent[1].fields <=> f \in call.supplied
    /\ "duedate" \in sent[1].fields <=> "dueDate" \in call.supplied
    /\ "description" \in sent[1].fields <=> call.text # Undefined
    /\ "assignee" \in sent[1].fields <=> call.accountId # Undefined

\* C27 (amended): the PUT body of updateIssue contains one of the eight fields
\* exactly when its parameter was supplied or customFields carries a key of that
\* name, and nothing besides the eight fields and the keys of customFields; the
\* tool jira_update_issue passes no customFields, so called with only a summary
\* it sends only the summary.
C27_SuppliedOrCustom ==
  (OperationSent /\ call.op = "updateIssue") =>
    /\ sent[1].method = "PUT"
    /\ \A f \in {"summary", "priority", "labels", "components", "fixVersions"} :
         f \in sent[1].fields <=> (f \in call.supplied \/ f \in call.custom)
    /\ "duedate" \in sent[1].fields <=>
         ("dueDate" \in call.supplied \/ "duedate" \in call.custom)
    /\ "description" \in sent[1].fields <=>
         (call.text # Undefined \/ "description" \in call.custom)
    /\ call.text # Undefined <=> sent[1].text # Undefined
    /\ "assignee" \in sent[1].fields <=>
         (call.accountId # Undefined \/ "assignee" \in call.custom)
    /\ call.accountId # Undefined <=> sent[1].assignee # Undefined
    /\ sent[1].fields \subseteq
         {"summary", "description", "priority", "assignee", "labels", "components",
          "fixVersions", "duedate"} \cup call.custom
    /\ call.via = "tool" => call.custom = {}
    /\ (call.via = "tool" /\ call.supplied = {"summary"} /\ call.text = Undefined
          /\ call.accountId = Undefined) => sent[1].fields = {"summary"}

C27_Witness ==
  /\ OperationSent
  /\ call.op = "updateIssue"
  /\ call.via = "tool"
  /\ call.supplied = {"summary"}
  /\ call.text = Undefined
  /\ call.accountId = Undefined
  /\ sent[1].fields = {"summary"}

\* ---- getStatusesForProject ----
\* positions <<t, k>> of the vendor response holding a status with the given id
StatusOccurrences(id) ==
  { p \in (DOMAIN vresp.issueTypes) \X (1..MaxStatuses) :
      /\ p[2] \in DOMAIN vresp.issueTypes[p[1]].statuses
      /\ vresp.issueTypes[p[1]].statuses[p[2]].id = id }

\* the last of these positions, in the order the response lists them
LastOccurrence(id) ==
  CHOOSE p \in StatusOccurrences(id) :
    \A q \in StatusOccurrences(id) :
      q[1] < p[1] \/ (q[1] = p[1] /\ q[2] <= p[2])

\* C28: getStatusesForProject returns each status id at most once, the set of
\* returned ids is the union of the status ids over all issue types of the vendor
\* response, and for an id occurring several times the record of its last
\* occurrence is the one returned.
C28_StatusesOnce ==
  (pc = "statusesDone" /\ outcome.kind = "ok") =>
    LET out == outcome.statuses IN
      /\ \A i, j \in DOMAIN out : out[i].id = out[j].id => i = j
      /\ { out[i].id : i \in DOMAIN out } =
           { id \in {"1", "2"} : StatusOccurrences(id) # {} }
      /\ \A i \in DOMAIN out :
           LET p == LastOccurrence(out[i].id) IN
             out[i] = vresp.issueTypes[p[1]].statuses[p[2]]
      /\ toolResp = [isError |-> FALSE, statuses |-> out]

C28_Witness ==
  /\ pc = "statusesDone"
  /\ outcome.kind = "ok"
  /\ Len(vresp.issueTypes) = 2
  /\ vresp.issueTypes[1].statuses = << [id |-> "1", name |-> "Open"],
                                       [id |-> "2", name |-> "Done"] >>
  /\ vresp.issueTypes[2].statuses = << [id |-> "1", name |-> "To Do"] >>
  /\ outcome.statuses = << [id |-> "1", name |-> "To Do"],
                           [id |-> "2", name |-> "Done"] >>

\* ---- the "More available" hint ----
\* C24: for a paginated Markdown result with hasMore true the hint names the
\* index of the first item not yet returned (startAt + count), so following the
\* hint visits every item of the vendor list exactly once, none skipped or
\* repeated, also when the vendor returns fewer items than maxResults.
C24_HintVisitsAll ==
  /\ (pc = "walkDone" /\ toolResp.data.hasMore) =>
       toolResp.hint =
         [present |-> TRUE, v |-> toolResp.data.startAt + toolResp.data.count]
  /\ pc \in {"walk", "walkAwaiting", "walkDone"} =>
       \A i \in DOMAIN outcome : outcome[i] = i
  /\ (pc = "walkDone" /\ ~toolResp.data.hasMore) => Len(outcome) = vresp.total

====
